---------------------------- MODULE Spec2Model ----------------------------
(***************************************************************************)
(* Model of the stock-dashboard backend services:                          *)
(*   backend/api/services/prices.py    provider cascade + TTL cache        *)
(*   backend/api/services/features.py  feature assembler + TTL cache       *)
(*   backend/api/services/news.py      search_news + TTL cache             *)
(*   backend/api/services/valuation.py predict_direction + model loader    *)
(* Python floats are modelled as exact rationals <<n, d>> (d > 0, lowest   *)
(* terms); Python None of an optional float is the empty tuple << >>.      *)
(* A Python dict is a function whose DOMAIN is the set of keys present.    *)
(***************************************************************************)
EXTENDS Integers, Sequences, FiniteSets, TLC

VARIABLES
    now,      \* time.time(), in whole seconds
    apikeys,  \* providers whose API key is set in the environment (prices.py:29-31)
    cache,    \* prices._cache      : key -> [data, ts]
    fcache,   \* features._cache    : key -> [ts, val]
    scache,   \* news._search_cache : key -> [ts, val]
    stored,   \* history: the last entry _cache_set wrote per key (never evicted)
    th,       \* per request thread: program counter and locals
    pin,      \* input of the pure-function specifications
    pout,     \* output of the pure-function specifications
    vm,       \* globals of valuation.py: _model, _MODEL_LOCK, _FEATURE_ORDER
    pth       \* per request thread of /predict: program counter and locals

vars == <<now, apikeys, cache, fcache, scache, stored, th, pin, pout, vm, pth>>

-----------------------------------------------------------------------------
(* Bounds of the model.                                                    *)

MaxTime    == 3      \* the clock runs 0..MaxTime in the price specifications
MaxTimeF   == 4      \* and 0..MaxTimeF in the feature specification
NumThreads == 2      \* request threads of the concurrent specification

(* prices.py:38 and features.py:24 read the TTLs from the environment      *)
(* (PRICE_CACHE_TTL, FEATURES_CACHE_TTL); the model runs with small ones.  *)
CACHE_TTL          == 2
FEATURES_CACHE_TTL == 3

Threads == 1..NumThreads

PROVIDER_ORDER == <<"alpha_vantage", "twelve_data", "finnhub">>
Providers == {PROVIDER_ORDER[i] : i \in 1..Len(PROVIDER_ORDER)}

Symbols   == {"aapl", "AAPL"}
Intervals == {"1day"}
Limits    == {1, 2}

\* str.upper()
Upper(s) == CASE s = "aapl" -> "AAPL"
              [] s = "msft" -> "MSFT"
              [] OTHER      -> s

-----------------------------------------------------------------------------
(* Generic sequence helpers.                                               *)

Range(s) == {s[i] : i \in DOMAIN s}

RECURSIVE SeqSum(_)
SeqSum(s) == IF s = << >> THEN 0 ELSE Head(s) + SeqSum(Tail(s))

\* list.sort(key=lambda x: x["timestamp"]): stable insertion by timestamp
RECURSIVE InsertByTs(_, _)
InsertByTs(b, s) ==
    IF s = << >> THEN <<b>>
    ELSE IF s[Len(s)].timestamp <= b.timestamp THEN Append(s, b)
    ELSE Append(InsertByTs(b, SubSeq(s, 1, Len(s) - 1)), s[Len(s)])

RECURSIVE SortByTs(_)
SortByTs(s) ==
    IF s = << >> THEN << >>
    ELSE InsertByTs(s[Len(s)], SortByTs(SubSeq(s, 1, Len(s) - 1)))

\* items[:limit]: the oldest bars instead of the most recent ones
LastNOldest(items, limit) ==
    SubSeq(items, 1, IF limit < Len(items) THEN limit ELSE Len(items))

\* items[-limit:] if limit else items   (Python slice semantics)
LastN(items, limit) ==
    IF limit = 0 THEN items
    ELSE IF limit > 0
         THEN SubSeq(items, IF Len(items) > limit THEN Len(items) - limit + 1 ELSE 1,
                     Len(items))
         ELSE \* items[k:] with k = -limit > 0
              SubSeq(items, (-limit) + 1, Len(items))

-----------------------------------------------------------------------------
(* Provider adapters (prices.py:139-337).  The HTTP response is an input:  *)
(*   http_ok    requests.get + raise_for_status did not raise              *)
(*   marker_ok  the payload carries the provider's success marker          *)
(*   rows       the rows of the payload, in payload order                  *)
(* A row of Alpha Vantage / Twelve Data: [dt, ok, o, h, l, c, v] where dt  *)
(* is the date string ([form, day, sec]) and ok says the price fields      *)
(* convert with float().  Finnhub sends parallel arrays of cells           *)
(* [ok, val].                                                              *)

DaySecs == 86400

Bar(ts, o, h, l, c, v) ==
    [timestamp |-> ts, open |-> o, high |-> h, low |-> l, close |-> c, volume |-> v]

NoData == [symbol |-> "", interval |-> "", provider |-> "", prices |-> << >>]

Raise(e)     == [raised |-> TRUE,  err |-> e,  data |-> NoData]
Returns(d)   == [raised |-> FALSE, err |-> "", data |-> d]

Series(symbol, interval, provider, items, limit) ==
    [symbol |-> Upper(symbol), interval |-> interval, provider |-> provider,
     prices |-> LastN(SortByTs(items), limit)]

\* datetime.strptime(iso, "%Y-%m-%d" if len(iso) == 10 else "%Y-%m-%d %H:%M:%S")
DtParses(dt) == dt.form \in {"date", "datetime"}
\* int(dt.timestamp())
Epoch(dt) == dt.day * DaySecs + (IF dt.form = "datetime" THEN dt.sec ELSE 0)

\* prices.py:196-227: rows that fail float() or strptime() are skipped
RECURSIVE AlphaItems(_)
AlphaItems(rows) ==
    IF rows = << >> THEN << >>
    ELSE LET r == Head(rows) IN
         IF r.ok /\ DtParses(r.dt)
         THEN <<Bar(Epoch(r.dt), r.o, r.h, r.l, r.c, r.v)>> \o AlphaItems(Tail(rows))
         ELSE AlphaItems(Tail(rows))

_from_alpha_vantage(symbol, interval, limit, resp) ==
    IF "alpha_vantage" \notin apikeys THEN Raise("Missing ALPHA_VANTAGE_KEY")
    ELSE IF ~resp.http_ok THEN Raise("alpha_vantage HTTPError")
    ELSE IF ~resp.marker_ok \/ resp.rows = << >> THEN Raise("Alpha Vantage error")
    ELSE Returns(Series(symbol, interval, "alpha_vantage", AlphaItems(resp.rows), limit))

\* prices.py:260-276: one try/except around the whole row
RECURSIVE TwelveItems(_)
TwelveItems(rows) ==
    IF rows = << >> THEN << >>
    ELSE LET r == Head(rows) IN
         IF DtParses(r.dt) /\ r.ok
         THEN <<Bar(Epoch(r.dt), r.o, r.h, r.l, r.c, r.v)>> \o TwelveItems(Tail(rows))
         ELSE TwelveItems(Tail(rows))

_from_twelve_data(symbol, interval, limit, resp) ==
    IF "twelve_data" \notin apikeys THEN Raise("Missing TWELVE_DATA_KEY")
    ELSE IF ~resp.http_ok THEN Raise("twelve_data HTTPError")
    ELSE IF ~resp.marker_ok THEN Raise("Twelve Data error")
    ELSE Returns(Series(symbol, interval, "twelve_data", TwelveItems(resp.rows), limit))

\* prices.py:319-329: no try/except; a short array or a bad cell raises
FinnhubCellsOk(resp, i) ==
    /\ resp.t[i].ok
    /\ \A a \in {resp.o, resp.h, resp.l, resp.c} : i <= Len(a) /\ a[i].ok
    /\ resp.has_v => (i <= Len(resp.v) /\ resp.v[i].ok)

FinnhubRowsOk(resp) == \A i \in 1..Len(resp.t) : FinnhubCellsOk(resp, i)

FinnhubItems(resp) ==
    [i \in 1..Len(resp.t) |->
        Bar(resp.t[i].val, resp.o[i].val, resp.h[i].val, resp.l[i].val, resp.c[i].val,
            IF resp.has_v THEN resp.v[i].val ELSE 0)]

_from_finnhub(symbol, interval, limit, resp) ==
    IF "finnhub" \notin apikeys THEN Raise("Missing FINNHUB_KEY")
    ELSE IF ~resp.http_ok THEN Raise("finnhub HTTPError")
    ELSE IF ~resp.marker_ok THEN Raise("Finnhub error")
    ELSE IF ~FinnhubRowsOk(resp) THEN Raise("finnhub row error")
    ELSE Returns(Series(symbol, interval, "finnhub", FinnhubItems(resp), limit))

\* prices.py:116-123: dispatch on the provider name
CallAdapter(provider, symbol, interval, limit, resp) ==
    CASE provider = "alpha_vantage" -> _from_alpha_vantage(symbol, interval, limit, resp)
      [] provider = "twelve_data"   -> _from_twelve_data(symbol, interval, limit, resp)
      [] provider = "finnhub"       -> _from_finnhub(symbol, interval, limit, resp)

-----------------------------------------------------------------------------
(* Floats as exact rationals <<n, d>> with d > 0 in lowest terms; None is  *)
(* << >>.  math.sqrt is exact on squares of rationals and otherwise        *)
(* truncated to 1/SqrtScale.                                               *)

None == << >>

Abs(i) == IF i < 0 THEN -i ELSE i

RECURSIVE GCD(_, _)
GCD(a, b) == IF b = 0 THEN a ELSE GCD(b, a % b)

Rat(n, d) ==
    LET g == GCD(Abs(n), Abs(d))
        sg == IF d < 0 THEN -1 ELSE 1
    IN  <<sg * (n \div g), sg * (d \div g)>>

F(i) == <<i, 1>>                       \* float(i)
RZero == F(0)

RAdd(x, y) ==
    LET g == GCD(x[2], y[2])
    IN  Rat(x[1] * (y[2] \div g) + y[1] * (x[2] \div g), (x[2] \div g) * y[2])
RNeg(x)    == <<-x[1], x[2]>>
RSub(x, y) == RAdd(x, RNeg(y))
RMul(x, y) ==
    LET a == Rat(x[1], y[2])
        b == Rat(y[1], x[2])
    IN  <<a[1] * b[1], a[2] * b[2]>>
RDiv(x, y) == RMul(x, Rat(y[2], y[1]))  \* y # 0
RLt(x, y)  == RSub(x, y)[1] < 0
RMax(x, y) == IF RLt(x, y) THEN y ELSE x

\* sum(s[lo..hi]); the halves are summed separately to keep the evaluation shallow
RECURSIVE RSumIn(_, _, _)
RSumIn(s, lo, hi) ==
    IF lo > hi THEN RZero
    ELSE IF lo = hi THEN s[lo]
    ELSE LET mid == (lo + hi) \div 2
         IN  RAdd(RSumIn(s, lo, mid), RSumIn(s, mid + 1, hi))
RSum(s) == RSumIn(s, 1, Len(s))

\* largest k in lo..hi with k*k <= n (hi*hi must not overflow)
RECURSIVE ISqrtIn(_, _, _)
ISqrtIn(n, lo, hi) ==
    IF lo >= hi THEN lo
    ELSE LET mid == (lo + hi + 1) \div 2
         IN  IF mid * mid <= n THEN ISqrtIn(n, mid, hi) ELSE ISqrtIn(n, lo, mid - 1)
ISqrt(n) == ISqrtIn(n, 0, IF n < 46340 THEN n ELSE 46340)

\* <<q, r>>: q = floor(x * 10^k) and r the remainder over x[2], for x >= 0
RECURSIVE LongDiv(_, _, _, _)
LongDiv(q, r, d, k) ==
    IF k = 0 THEN <<q, r>>
    ELSE LongDiv(q * 10 + ((r * 10) \div d), (r * 10) % d, d, k - 1)
ScaledFloor(x, k) == LongDiv(x[1] \div x[2], x[1] % x[2], x[2], k)

SqrtDigits == 3
SqrtScale  == 10 ^ SqrtDigits

\* math.sqrt(x), x >= 0
RSqrt(x) ==
    LET a == ISqrt(x[1])
        b == ISqrt(x[2])
    IN  IF a * a = x[1] /\ b * b = x[2] THEN <<a, b>>
        ELSE Rat(ISqrt(ScaledFloor(x, 2 * SqrtDigits)[1]), SqrtScale)

\* round(v, 6): to the nearest multiple of 10^-6, ties to even
RoundDigits == 6
RoundScale  == 10 ^ RoundDigits
Round6(x) ==
    LET ax == <<Abs(x[1]), x[2]>>
        qr == ScaledFloor(ax, RoundDigits)
        up == 2 * qr[2] > x[2] \/ (2 * qr[2] = x[2] /\ qr[1] % 2 = 1)
        m  == IF up THEN qr[1] + 1 ELSE qr[1]
    IN  Rat(IF x[1] < 0 THEN -m ELSE m, RoundScale)

-----------------------------------------------------------------------------
(* Indicator math (features.py:49-118).  values is a sequence of floats.   *)

\* values[-n:] for 1 <= n <= len(values)
LastVals(values, n) == SubSeq(values, Len(values) - n + 1, Len(values))

_sma(values, n) ==
    IF Len(values) < n THEN None
    ELSE RDiv(RSum(LastVals(values, n)), F(n))

_stddev(values, n) ==
    IF Len(values) < n THEN None
    ELSE LET m == _sma(values, n) IN
         IF m = None THEN None
         ELSE LET tail == LastVals(values, n)
                  sq   == [i \in 1..n |-> RMul(RSub(tail[i], m), RSub(tail[i], m))]
              IN  RSqrt(RDiv(RSum(sq), F(n)))

\* "for v in values[lo..hi]: ema = v * k + ema * (1 - k)", in order; the run is
\* cut in two and the first half is evaluated before the second starts
RECURSIVE EmaFold(_, _, _, _, _)
EmaFold(ema, values, lo, hi, k) ==
    IF lo > hi THEN ema
    ELSE IF lo = hi THEN RAdd(RMul(values[lo], k), RMul(ema, RSub(F(1), k)))
    ELSE LET mid  == (lo + hi) \div 2
             left == EmaFold(ema, values, lo, mid, k)
         IN  IF left = None THEN None ELSE EmaFold(left, values, mid + 1, hi, k)

_ema(values, n) ==
    IF Len(values) < n THEN None
    ELSE EmaFold(RDiv(RSum(SubSeq(values, 1, n)), F(n)), values, n + 1, Len(values),
                 Rat(2, n + 1))

\* Wilder's smoothing "avg = (avg * (period - 1) + xs[i]) / period" for i = lo..hi,
\* in order (features.py:84-86), evaluated half by half like EmaFold
RECURSIVE Wilder(_, _, _, _, _)
Wilder(avg, xs, lo, hi, period) ==
    IF lo > hi THEN avg
    ELSE IF lo = hi THEN RDiv(RAdd(RMul(avg, F(period - 1)), xs[lo]), F(period))
    ELSE LET mid  == (lo + hi) \div 2
             left == Wilder(avg, xs, lo, mid, period)
         IN  IF left = None THEN None ELSE Wilder(left, xs, mid + 1, hi, period)

\* variant of _rsi whose length guard is off by one: period values are enough
_rsi_off_by_one(values, period) ==
    IF Len(values) < period THEN None
    ELSE LET chg    == [i \in 1..(Len(values) - 1) |-> RSub(values[i + 1], values[i])]
             gains  == [i \in DOMAIN chg |-> RMax(chg[i], RZero)]
             losses == [i \in DOMAIN chg |-> RMax(RNeg(chg[i]), RZero)]
             first  == IF Len(chg) < period THEN Len(chg) ELSE period
             avg_loss == Wilder(RDiv(RSum(SubSeq(losses, 1, first)), F(period)),
                                losses, period + 1, Len(losses), period)
             avg_gain == Wilder(RDiv(RSum(SubSeq(gains, 1, first)), F(period)),
                                gains, period + 1, Len(gains), period)
         IN  IF avg_loss = RZero THEN F(100)
             ELSE RSub(F(100), RDiv(F(100), RAdd(F(1), RDiv(avg_gain, avg_loss))))

\* variant of _rsi whose losses are the absolute changes
_rsi_abs_losses(values, period) ==
    IF Len(values) <= period THEN None
    ELSE LET chg    == [i \in 1..(Len(values) - 1) |-> RSub(values[i + 1], values[i])]
             gains  == [i \in DOMAIN chg |-> RMax(chg[i], RZero)]
             losses == [i \in DOMAIN chg |-> RMax(chg[i], RNeg(chg[i]))]
             avg_loss == Wilder(RDiv(RSum(SubSeq(losses, 1, period)), F(period)),
                                losses, period + 1, Len(losses), period)
             avg_gain == Wilder(RDiv(RSum(SubSeq(gains, 1, period)), F(period)),
                                gains, period + 1, Len(gains), period)
         IN  IF avg_loss = RZero THEN F(100)
             ELSE RSub(F(100), RDiv(F(100), RAdd(F(1), RDiv(avg_gain, avg_loss))))

\* features.py:72-90
_rsi(values, period) ==
    IF Len(values) <= period THEN None
    ELSE LET chg    == [i \in 1..(Len(values) - 1) |-> RSub(values[i + 1], values[i])]
             gains  == [i \in DOMAIN chg |-> RMax(chg[i], RZero)]
             losses == [i \in DOMAIN chg |-> RMax(RNeg(chg[i]), RZero)]
             avg_loss == Wilder(RDiv(RSum(SubSeq(losses, 1, period)), F(period)),
                                losses, period + 1, Len(losses), period)
             avg_gain == Wilder(RDiv(RSum(SubSeq(gains, 1, period)), F(period)),
                                gains, period + 1, Len(gains), period)
         IN  IF avg_loss = RZero THEN F(100)
             ELSE RSub(F(100), RDiv(F(100), RAdd(F(1), RDiv(avg_gain, avg_loss))))

\* the running MACD series over every prefix on which both EMAs exist
RECURSIVE MacdSeries(_, _, _, _, _)
MacdSeries(values, lo, hi, fast, slow) ==
    IF lo > hi THEN << >>
    ELSE IF lo = hi
    THEN LET ef == _ema(SubSeq(values, 1, lo), fast)
             es == _ema(SubSeq(values, 1, lo), slow)
         IN  IF ef # None /\ es # None THEN <<RSub(ef, es)>> ELSE << >>
    ELSE LET mid == (lo + hi) \div 2
         IN  MacdSeries(values, lo, mid, fast, slow) \o MacdSeries(values, mid + 1, hi, fast, slow)

\* variant of _macd whose length guard forgets the signal period
_macd_slow_only(values, fast, slow, signal) ==
    IF Len(values) < slow THEN <<None, None, None>>
    ELSE LET ema_fast == _ema(values, fast)
             ema_slow == _ema(values, slow)
         IN  IF ema_fast = None \/ ema_slow = None THEN <<None, None, None>>
             ELSE LET macd_val    == RSub(ema_fast, ema_slow)
                      macd_series == MacdSeries(values, 1, Len(values), fast, slow)
                  IN  IF Len(macd_series) < signal THEN <<macd_val, None, None>>
                      ELSE LET sig == _ema(macd_series, signal) IN
                           IF sig = None THEN <<macd_val, None, None>>
                           ELSE <<macd_val, sig, RSub(macd_val, sig)>>

\* features.py:92-113
_macd(values, fast, slow, signal) ==
    IF Len(values) < slow + signal THEN <<None, None, None>>
    ELSE LET ema_fast == _ema(values, fast)
             ema_slow == _ema(values, slow)
         IN  IF ema_fast = None \/ ema_slow = None THEN <<None, None, None>>
             ELSE LET macd_val    == RSub(ema_fast, ema_slow)
                      macd_series == MacdSeries(values, 1, Len(values), fast, slow)
                  IN  IF Len(macd_series) < signal THEN <<macd_val, None, None>>
                      ELSE LET sig == _ema(macd_series, signal) IN
                           IF sig = None THEN <<macd_val, None, None>>
                           ELSE <<macd_val, sig, RSub(macd_val, sig)>>

_pct(a, b) ==
    IF a = None \/ b = None \/ b = RZero THEN None
    ELSE RSub(RDiv(a, b), F(1))

-----------------------------------------------------------------------------
(* The window statistics in binary floating point.  Above, a float is the  *)
(* exact rational; here every operation is rounded to the nearest number   *)
(* of MantBits significant bits, ties to even, which is IEEE-754           *)
(* arithmetic with a significand of MantBits bits instead of 53 (no        *)
(* overflow or underflow).                                                 *)

MantBits == 4

\* <<p, q, e>> with 2^(MantBits-1) <= p/q < 2^MantBits, the value being (p/q) * 2^e
RECURSIVE FlNorm(_, _, _)
FlNorm(p, q, e) ==
    IF p < q * 2 ^ (MantBits - 1) THEN FlNorm(2 * p, q, e - 1)
    ELSE IF p >= q * 2 ^ MantBits THEN FlNorm(p, 2 * q, e + 1)
    ELSE <<p, q, e>>

\* the float nearest to the rational x
FlRound(x) ==
    IF x[1] = 0 THEN RZero
    ELSE LET nm  == FlNorm(Abs(x[1]), x[2], 0)
             m   == nm[1] \div nm[2]
             r   == nm[1] % nm[2]
             up  == 2 * r > nm[2] \/ (2 * r = nm[2] /\ m % 2 = 1)
             mm  == IF up THEN m + 1 ELSE m
             mag == IF nm[3] >= 0 THEN F(mm * 2 ^ nm[3]) ELSE Rat(mm, 2 ^ (-nm[3]))
         IN  IF x[1] < 0 THEN RNeg(mag) ELSE mag

FlAdd(x, y) == FlRound(RAdd(x, y))
FlSub(x, y) == FlRound(RSub(x, y))
FlMul(x, y) == FlRound(RMul(x, y))
FlDiv(x, y) == FlRound(RDiv(x, y))     \* y # 0

\* sum(s): 0 + s[1] + s[2] + ..., left to right
RECURSIVE FlSum(_)
FlSum(s) ==
    IF s = << >> THEN RZero
    ELSE FlAdd(FlSum(SubSeq(s, 1, Len(s) - 1)), s[Len(s)])

\* variant of _sma_float that also returns None on exactly n values
_sma_float_strict(values, n) ==
    IF Len(values) <= n THEN None
    ELSE FlDiv(FlSum(LastVals(values, n)), F(n))

\* features.py:49-52
_sma_float(values, n) ==
    IF Len(values) < n THEN None
    ELSE FlDiv(FlSum(LastVals(values, n)), F(n))

\* features.py:54-61; math.sqrt is RSqrt rounded to a float
_stddev_float(values, n) ==
    IF Len(values) < n THEN None
    ELSE LET m == _sma_float(values, n) IN
         IF m = None THEN None
         ELSE LET tail == LastVals(values, n)
                  sq   == [i \in 1..n |-> FlMul(FlSub(tail[i], m), FlSub(tail[i], m))]
              IN  FlRound(RSqrt(FlDiv(FlSum(sq), F(n))))

\* "for v in values[lo..hi]: ema = v * k + ema * (1 - k)", in order
RECURSIVE FlEmaFold(_, _, _, _, _)
FlEmaFold(ema, values, lo, hi, k) ==
    IF lo > hi THEN ema
    ELSE FlEmaFold(FlAdd(FlMul(values[lo], k), FlMul(ema, FlSub(F(1), k))),
                   values, lo + 1, hi, k)

\* features.py:63-70
_ema_float(values, n) ==
    IF Len(values) < n THEN None
    ELSE FlEmaFold(FlDiv(FlSum(SubSeq(values, 1, n)), F(n)), values, n + 1, Len(values),
                   FlDiv(F(2), F(n + 1)))

-----------------------------------------------------------------------------
(* The feature vector (features.py:147-231).  items is the price series,   *)
(* items_news the list search_news returned ([published_at, score]), tnow  *)
(* the value of time.time() at features.py:184.                            *)

Closes(items) == [i \in DOMAIN items |-> F(items[i].close)]
Vols(items)   == [i \in DOMAIN items |-> F(items[i].volume)]

\* features.py:160-163: daily returns, skipping a zero previous close
RECURSIVE Rets(_, _, _)
Rets(closes, lo, hi) ==
    IF lo > hi THEN << >>
    ELSE IF lo = hi
    THEN IF closes[lo - 1] # RZero
         THEN <<RSub(RDiv(closes[lo], closes[lo - 1]), F(1))>> ELSE << >>
    ELSE LET mid == (lo + hi) \div 2
         IN  Rets(closes, lo, mid) \o Rets(closes, mid + 1, hi)

\* variant of BbPercentB whose lower band lies one deviation below the mean
BbPercentBNarrowLower(closes) ==
    LET last   == closes[Len(closes)]
        sma_20 == _sma(closes, 20)
        sd_20  == _stddev(closes, 20)
    IN  IF sma_20 = None \/ sd_20 = None THEN None
        ELSE LET bb_upper == RAdd(sma_20, RMul(F(2), sd_20))
                 bb_lower == RSub(sma_20, sd_20)
             IN  IF bb_upper # bb_lower
                 THEN RDiv(RSub(last, bb_lower), RSub(bb_upper, bb_lower))
                 ELSE None

\* features.py:170-176
BbPercentB(closes) ==
    LET last   == closes[Len(closes)]
        sma_20 == _sma(closes, 20)
        sd_20  == _stddev(closes, 20)
    IN  IF sma_20 = None \/ sd_20 = None THEN None
        ELSE LET bb_upper == RAdd(sma_20, RMul(F(2), sd_20))
                 bb_lower == RSub(sma_20, RMul(F(2), sd_20))
             IN  IF bb_upper # bb_lower
                 THEN RDiv(RSub(last, bb_lower), RSub(bb_upper, bb_lower))
                 ELSE None

\* features.py:179-181: "if vol_mean_20 and vol_sd_20" is false on None and on 0.0
VolZscore(vols) ==
    LET vol_mean_20 == _sma(vols, 20)
        vol_sd_20   == _stddev(vols, 20)
    IN  IF vol_mean_20 # None /\ vol_mean_20 # RZero /\ vol_sd_20 # None /\ vol_sd_20 # RZero
        THEN RDiv(RSub(vols[Len(vols)], vol_mean_20), vol_sd_20)
        ELSE None

\* features.py:186: the scores of the items that carry a numeric score
RECURSIVE Scores(_)
Scores(items_news) ==
    IF items_news = << >> THEN << >>
    ELSE (IF Head(items_news).score # None THEN <<Head(items_news).score>> ELSE << >>)
         \o Scores(Tail(items_news))

\* variant of WindowMask with an exclusive cutoff
RECURSIVE WindowMaskExclusive(_, _, _)
WindowMaskExclusive(times, cutoff, i) ==
    IF i > Len(times) THEN << >>
    ELSE (IF times[i] > cutoff THEN <<i>> ELSE << >>)
         \o WindowMaskExclusive(times, cutoff, i + 1)

\* features.py:193-195: 1-based positions i with times[i] >= now - seconds
RECURSIVE WindowMask(_, _, _)
WindowMask(times, cutoff, i) ==
    IF i > Len(times) THEN << >>
    ELSE (IF times[i] >= cutoff THEN <<i>> ELSE << >>) \o WindowMask(times, cutoff, i + 1)

\* features.py:189-191
Mean(arr) == IF arr = << >> THEN None ELSE RDiv(RSum(arr), F(Len(arr)))

\* variant of SentMean that reports 0.0 for an empty window
SentMeanZero(scores, idx) ==
    IF idx = << >> THEN RZero ELSE Mean([j \in DOMAIN idx |-> scores[idx[j]]])

\* features.py:200-201
SentMean(scores, idx) ==
    IF idx = << >> THEN None ELSE Mean([j \in DOMAIN idx |-> scores[idx[j]]])

\* features.py:227-231: floats are rounded, None and ints pass through
RoundOpt(v) == IF v = None THEN None ELSE Round6(v)

Features(items, items_news, tnow) ==
    LET closes  == Closes(items)
        vols    == Vols(items)
        n       == Len(closes)
        last    == closes[n]
        ret_1d  == IF n > 1   THEN _pct(last, closes[n - 1]) ELSE None
        ret_5d  == IF n >= 6  THEN _pct(last, closes[n - 5]) ELSE None
        ret_21d == IF n >= 22 THEN _pct(last, closes[n - 21]) ELSE None
        rets    == Rets(closes, 2, n)
        vol_21d == IF Len(rets) >= 21 THEN _stddev(rets, 21) ELSE None
        macd    == _macd(closes, 12, 26, 9)
        scores  == Scores(items_news)
        times   == [i \in DOMAIN items_news |-> items_news[i].published_at]
        idx_24h == WindowMask(times, tnow - 24 * 3600, 1)
        idx_7d  == WindowMask(times, tnow - 7 * 24 * 3600, 1)
    IN  [close              |-> RoundOpt(last),
         return_1d          |-> RoundOpt(ret_1d),
         return_5d          |-> RoundOpt(ret_5d),
         return_21d         |-> RoundOpt(ret_21d),
         volatility_21d     |-> RoundOpt(vol_21d),
         rsi_14             |-> RoundOpt(_rsi(closes, 14)),
         macd               |-> RoundOpt(macd[1]),
         macd_signal        |-> RoundOpt(macd[2]),
         macd_hist          |-> RoundOpt(macd[3]),
         bb_percent_b       |-> RoundOpt(BbPercentB(closes)),
         volume_zscore_20   |-> RoundOpt(VolZscore(vols)),
         news_sent_mean_24h |-> RoundOpt(SentMean(scores, idx_24h)),
         news_sent_mean_7d  |-> RoundOpt(SentMean(scores, idx_7d)),
         news_count_24h     |-> Len(idx_24h),
         news_count_7d      |-> Len(idx_7d),
         news_count_total   |-> Len(items_news)]

-----------------------------------------------------------------------------
(* HTTP responses the providers can send (inputs of the cascade).          *)

Dt(form, day, sec) == [form |-> form, day |-> day, sec |-> sec]
Row(dt, ok, c, v) ==
    [dt |-> dt, ok |-> ok, o |-> c, h |-> c + 1, l |-> c - 1, c |-> c, v |-> v]
Cell(ok, val) == [ok |-> ok, val |-> val]

HttpFail   == [http_ok |-> FALSE, marker_ok |-> FALSE, rows |-> << >>]
ErrPayload == [http_ok |-> TRUE,  marker_ok |-> FALSE, rows |-> << >>]
Rows(rows) == [http_ok |-> TRUE,  marker_ok |-> TRUE,  rows |-> rows]

BaseDay == 10                          \* payload dates are BaseDay, BaseDay+1, ...

\* two parseable rows, newest first, with closing price c
TwoRows(c) == <<Row(Dt("date", BaseDay + 1, 0), TRUE, c + 1, 100),
                Row(Dt("date", BaseDay, 0), TRUE, c, 100)>>
BadRows    == <<Row(Dt("bad", 0, 0), TRUE, 1, 1), Row(Dt("date", BaseDay, 0), FALSE, 0, 0)>>

AlphaResponses  == {HttpFail, ErrPayload, Rows(BadRows), Rows(TwoRows(10))}
TwelveResponses == {HttpFail, Rows(<< >>), Rows(TwoRows(20)), Rows(TwoRows(30))}

FinnhubResp(s_ok, t, c, has_v) ==
    [http_ok |-> TRUE, marker_ok |-> s_ok, t |-> t, o |-> c, h |-> c, l |-> c, c |-> c,
     v |-> c, has_v |-> has_v]
FinnhubFail == [http_ok |-> FALSE, marker_ok |-> FALSE, t |-> << >>, o |-> << >>,
                h |-> << >>, l |-> << >>, c |-> << >>, v |-> << >>, has_v |-> FALSE]

FinnhubResponses ==
    { FinnhubFail,
      FinnhubResp(TRUE, << >>, << >>, TRUE),                         \* s = "ok", no bars
      FinnhubResp(TRUE, <<Cell(TRUE, (BaseDay + 1) * DaySecs), Cell(TRUE, BaseDay * DaySecs)>>,
                  <<Cell(TRUE, 41), Cell(TRUE, 40)>>, FALSE) }

Responses(provider) ==
    CASE provider = "alpha_vantage" -> AlphaResponses
      [] provider = "twelve_data"   -> TwelveResponses
      [] provider = "finnhub"       -> FinnhubResponses

-----------------------------------------------------------------------------
(* Request threads.                                                        *)

EpochBase == 864000                    \* time.time() when the model clock reads 0
Time == EpochBase + now                \* time.time()

NoPayload == [symbol |-> "", asof |-> 0, window |-> [prices |-> 0, news |-> 0],
              interval |-> "", features |-> << >>]
NoFRet == [kind |-> "none", val |-> NoPayload, err |-> ""]

NoRet == [kind |-> "none", data |-> NoData, err |-> "", last_err |-> << >>]

IdleLocals ==
    [pc       |-> "idle",
     op       |-> "",         \* the public function the request called
     symbol   |-> "", interval |-> "", limit |-> 0, max_news |-> 0,
     item     |-> << >>,      \* _cache_get: item = _cache.get(key)
     idx      |-> 0,          \* index into PROVIDER_ORDER of the for loop
     last_err |-> << >>,      \* last_err (None is << >>)
     data     |-> NoData,     \* data returned by the adapter just called
     ret      |-> NoRet,      \* outcome of get_prices
     tried    |-> << >>,      \* history: adapters invoked by this call and their outcome
     pre      |-> << >>,      \* history: stored[key] when the call read the cache
     tchk     |-> 0,          \* history: clock when the call looked at the cache
     cpre     |-> << >>,      \* history: the price cache when the call read it
     now_l    |-> 0,          \* get_features: now = time.time() (features.py:184)
     news     |-> << >>,      \* get_features: items_news
     fret     |-> NoFRet,     \* outcome of get_features
     fpre     |-> << >>,      \* history: the features cache entry the call found
     ftchk    |-> 0,          \* history: clock when the call read the features cache
     called   |-> {},         \* history: services get_features called
     fetched  |-> 0,          \* history: clock when an adapter fetched the series in ret
     got      |-> 0,          \* history: clock when get_prices handed the series over
     lat      |-> 0,          \* history: time spent between the fetch and the stores
     tret     |-> 0]          \* history: clock when get_features had its answer

\* prices.py:108
PriceKey(l) == <<Upper(l.symbol), l.interval, l.limit>>

\* dict helpers
DictGet(d, k)    == IF k \in DOMAIN d THEN <<d[k]>> ELSE << >>
DictSet(d, k, v) == [x \in DOMAIN d \cup {k} |-> IF x = k THEN v ELSE d[x]]
DictPop(d, k)    == [x \in DOMAIN d \ {k} |-> d[x]]

\* variant of Expired with the operands swapped: no item ever expires
ExpiredSwapped(item, t) == item.ts - t > CACHE_TTL

\* variant of Expired that serves an item one second beyond the TTL
ExpiredLate(item, t) == t - item.ts > CACHE_TTL + 1

\* prices.py:72
Expired(item, t) == t - item.ts > CACHE_TTL

\* variant of Accepts without the test of data["prices"]
AcceptsAny(data) == data # NoData

\* prices.py:125: "data and data.get('prices')"
Accepts(data) == data # NoData /\ data.prices # << >>

\* variant of ProviderAt that walks PROVIDER_ORDER from its end
ProviderAtReversed(i) == PROVIDER_ORDER[Len(PROVIDER_ORDER) + 1 - i]

\* prices.py:114: the provider the for loop visits at step i
ProviderAt(i) == PROVIDER_ORDER[i]

\* variant of Catch that keeps the first exception instead of the last
CatchFirst(last_err, r) == IF r.raised /\ last_err = << >> THEN <<r.err>> ELSE last_err

\* prices.py:128-129: "except Exception as e: last_err = e"
Catch(last_err, r) == IF r.raised THEN <<r.err>> ELSE last_err

L(t) == th[t]

-----------------------------------------------------------------------------
(* get_prices (prices.py:89-132), one action per step of the call.         *)

\* a request enters get_prices(symbol, interval=, limit=)
EnterGetPrices(t, symbols, limits) ==
    /\ L(t).pc = "idle"
    /\ \E symbol \in symbols, interval \in Intervals, limit \in limits :
          th' = [th EXCEPT ![t] = [IdleLocals EXCEPT !.pc = "gp_get", !.op = "get_prices",
                     !.symbol = symbol, !.interval = interval, !.limit = limit]]
    /\ UNCHANGED <<vm, pth, now, apikeys, cache, fcache, scache, stored, pin, pout>>

CallGetPrices(t) == EnterGetPrices(t, Symbols, Limits)

\* prices.py:108-109, 69-71: item = _cache.get(key); a missing item is a miss
GP_Get(t) ==
    /\ L(t).pc = "gp_get"
    /\ LET item == DictGet(cache, PriceKey(L(t))) IN
       th' = [th EXCEPT ![t] = [@ EXCEPT
                 !.item = item,
                 !.pre  = DictGet(stored, PriceKey(L(t))),
                 !.cpre = cache,
                 !.tchk = Time,
                 !.idx  = 1,
                 !.pc   = IF item = << >> THEN "gp_try" ELSE "gp_ttl"]]
    /\ UNCHANGED <<vm, pth, now, apikeys, cache, fcache, scache, stored, pin, pout>>

\* variant of GP_Ttl that leaves an expired item in the cache
GP_TtlNoPop(t) ==
    /\ L(t).pc = "gp_ttl"
    /\ LET item == L(t).item[1] IN
       IF Expired(item, Time)
       THEN th' = [th EXCEPT ![t] = [@ EXCEPT !.tchk = Time, !.pc = "gp_try"]]
       ELSE th' = [th EXCEPT ![t] = [@ EXCEPT !.tchk = Time, !.pc = "gp_done",
                      !.fetched = item.fetched, !.got = Time,
                      !.lat = item.ts - item.fetched,
                      !.ret = [kind |-> "return", data |-> item.data, err |-> "",
                               last_err |-> << >>]]]
    /\ UNCHANGED <<vm, pth, now, apikeys, cache, fcache, scache, stored, pin, pout>>

\* prices.py:72-75, 110-111: an expired item is popped, a fresh one returned.
\* The cached dict has four keys, so "if cached" is true.
GP_Ttl(t) ==
    /\ L(t).pc = "gp_ttl"
    /\ LET item == L(t).item[1] IN
       IF Expired(item, Time)
       THEN /\ cache' = DictPop(cache, PriceKey(L(t)))
            /\ th' = [th EXCEPT ![t] = [@ EXCEPT !.tchk = Time, !.pc = "gp_try"]]
       ELSE /\ cache' = cache
            /\ th' = [th EXCEPT ![t] = [@ EXCEPT !.tchk = Time, !.pc = "gp_done",
                         !.fetched = item.fetched, !.got = Time,
                         !.lat = item.ts - item.fetched,
                         !.ret = [kind |-> "return", data |-> item.data, err |-> "",
                                  last_err |-> << >>]]]
    /\ UNCHANGED <<vm, pth, now, apikeys, fcache, scache, stored, pin, pout>>

\* prices.py:114-130: call the adapter of the current provider
GP_Try(t) ==
    /\ L(t).pc = "gp_try"
    /\ L(t).idx <= Len(PROVIDER_ORDER)
    /\ \E resp \in Responses(ProviderAt(L(t).idx)) :
          LET provider == ProviderAt(L(t).idx)
              r  == CallAdapter(provider, L(t).symbol, L(t).interval, L(t).limit, resp)
              ev == [provider |-> provider, raised |-> r.raised, err |-> r.err,
                     bars |-> Len(r.data.prices)]
          IN  th' = [th EXCEPT ![t] = [@ EXCEPT
                        !.tried    = Append(@, ev),
                        !.fetched  = Time,
                        !.last_err = Catch(@, r),
                        !.data     = IF ~r.raised /\ Accepts(r.data) THEN r.data ELSE @,
                        !.idx      = IF ~r.raised /\ Accepts(r.data) THEN @ ELSE @ + 1,
                        !.pc       = IF ~r.raised /\ Accepts(r.data) THEN "gp_set" ELSE @]]
    /\ UNCHANGED <<vm, pth, now, apikeys, cache, fcache, scache, stored, pin, pout>>

\* prices.py:126-127, 78-79: _cache_set(key, data); return data.  The field
\* fetched of an entry is history: the clock when the adapter fetched the series.
GP_Set(t) ==
    /\ L(t).pc = "gp_set"
    /\ LET ent == [data |-> L(t).data, ts |-> Time, fetched |-> L(t).fetched] IN
       /\ cache'  = DictSet(cache, PriceKey(L(t)), ent)
       /\ stored' = DictSet(stored, PriceKey(L(t)), ent)
    /\ th' = [th EXCEPT ![t] = [@ EXCEPT !.pc = "gp_done",
                 !.got = Time, !.lat = Time - L(t).fetched,
                 !.ret = [kind |-> "return", data |-> L(t).data, err |-> "",
                          last_err |-> << >>]]]
    /\ UNCHANGED <<vm, pth, now, apikeys, fcache, scache, pin, pout>>

\* variant of GP_Raise in which the exception of an adapter ends the call at once
GP_RaiseEarly(t) ==
    /\ L(t).pc = "gp_try"
    /\ L(t).last_err # << >>
    /\ th' = [th EXCEPT ![t] = [@ EXCEPT !.pc = "gp_done",
                 !.ret = [kind |-> "raise", data |-> NoData, err |-> "PriceServiceError",
                          last_err |-> L(t).last_err]]]
    /\ UNCHANGED <<vm, pth, now, apikeys, cache, fcache, scache, stored, pin, pout>>

\* prices.py:132: the loop ran out of providers
GP_Raise(t) ==
    /\ L(t).pc = "gp_try"
    /\ L(t).idx > Len(PROVIDER_ORDER)
    /\ th' = [th EXCEPT ![t] = [@ EXCEPT !.pc = "gp_done",
                 !.ret = [kind |-> "raise", data |-> NoData, err |-> "PriceServiceError",
                          last_err |-> L(t).last_err]]]
    /\ UNCHANGED <<vm, pth, now, apikeys, cache, fcache, scache, stored, pin, pout>>

\* the request that called get_prices gets its answer (routes.py:44-47)
GP_Return(t) ==
    /\ L(t).pc = "gp_done"
    /\ L(t).op = "get_prices"
    /\ th' = [th EXCEPT ![t] = IdleLocals]
    /\ UNCHANGED <<vm, pth, now, apikeys, cache, fcache, scache, stored, pin, pout>>

\* time passes
TickTo(bound) ==
    /\ now < bound
    /\ now' = now + 1
    /\ UNCHANGED <<vm, pth, apikeys, cache, fcache, scache, stored, th, pin, pout>>

Tick  == TickTo(MaxTime)
TickF == TickTo(MaxTimeF)

-----------------------------------------------------------------------------
(* search_news (news.py:89-144).  The GNews response is an input:          *)
(* [http_ok, articles], an article being [published_at, score] after       *)
(* _iso8601_to_epoch and sentiment().                                      *)

_CACHE_TTL_SEARCH == 2                 \* news.py:41, in model seconds

Article(published_at, score) == [published_at |-> published_at, score |-> score]
NewsFail       == [http_ok |-> FALSE, articles |-> << >>]
NewsOk(arts)   == [http_ok |-> TRUE, articles |-> arts]

ArtFresh == Article(EpochBase - 3600, Rat(1, 2))          \* within 24 h
ArtWeek  == Article(EpochBase - 2 * 86400, Rat(-1, 4))    \* within 7 d only
ArtOld   == Article(EpochBase - 8 * 86400, Rat(3, 4))     \* older than 7 d

NewsResponses == {NewsFail, NewsOk(<< >>), NewsOk(<<ArtWeek, ArtFresh, ArtOld>>),
                  NewsOk(<<ArtOld, ArtWeek>>), NewsOk(<<ArtOld>>)}

SearchQueries  == {"AAPL"}
SearchMaxItems == {1, 2}

\* payload.get("articles", [])[:max_items]
FirstN(s, n) == SubSeq(s, 1, IF Len(s) < n THEN Len(s) ELSE n)

\* variant of NewsCacheGet without the TTL: an entry is served for ever
NewsCacheGetNoTtl(store, key, ttl, t) ==
    LET item == DictGet(store, key) IN
    IF item = << >> THEN << >> ELSE item[1].val

\* news.py:59-66 followed by "if cached": an empty list is not served
NewsCacheGet(store, key, ttl, t) ==
    LET item == DictGet(store, key) IN
    IF item = << >> THEN << >>
    ELSE IF t - item[1].ts > ttl THEN << >>
    ELSE item[1].val

\* [raised, err, items, store, requested]: the outcome, the search cache
\* afterwards and whether requests.get was called (news.py:115)
search_news(q, max_items, resp, store, t) ==
    IF "gnews" \notin apikeys
    THEN [raised |-> TRUE, err |-> "RuntimeError: Missing GNEWS_API_KEY", items |-> << >>,
          store |-> store, requested |-> FALSE]
    ELSE LET key    == <<q, max_items>>
             cached == NewsCacheGet(store, key, _CACHE_TTL_SEARCH, t)
         IN  IF cached # << >>
             THEN [raised |-> FALSE, err |-> "", items |-> cached, store |-> store,
                   requested |-> FALSE]
             ELSE IF ~resp.http_ok
             THEN [raised |-> TRUE, err |-> "gnews HTTPError", items |-> << >>,
                   store |-> store, requested |-> TRUE]
             ELSE LET items == FirstN(resp.articles, max_items) IN
                  [raised |-> FALSE, err |-> "", items |-> items,
                   store |-> DictSet(store, key, [ts |-> t, val |-> items]),
                   requested |-> TRUE]

\* a request calls search_news(symbol=q, max_items=...) (routes.py:64-67); pout
\* keeps the last call: its key, the entry it found, the clock and the outcome
CallSearchNews ==
    \E q \in SearchQueries, max_items \in SearchMaxItems, resp \in NewsResponses :
       LET r == search_news(q, max_items, resp, scache, Time) IN
       /\ scache' = r.store
       /\ pout' = <<[kind |-> "search", key |-> <<q, max_items>>,
                     pre |-> DictGet(scache, <<q, max_items>>), before |-> scache,
                     t |-> Time, r |-> r]>>
       /\ UNCHANGED <<vm, pth, now, apikeys, cache, fcache, stored, th, pin>>

-----------------------------------------------------------------------------
(* get_features (features.py:123-241), one action per step of the call.    *)

MaxNews == {0, 2}
FeatureLimits == {2}

\* features.py:135-136
FeatureKey(l) == <<l.symbol, l.interval, l.limit, l.max_news>>

\* variant of FeatureFresh without the TTL: an entry is fresh for ever
FeatureFreshNoTtl(ent, t) == ent.ts <= t

\* features.py:39
FeatureFresh(ent, t) == t - ent.ts <= FEATURES_CACHE_TTL

\* a request enters get_features(symbol, interval, limit, max_news)
CallGetFeatures(t) ==
    /\ L(t).pc = "idle"
    /\ \E symbol \in Symbols, interval \in Intervals, limit \in FeatureLimits,
          max_news \in MaxNews :
          th' = [th EXCEPT ![t] = [IdleLocals EXCEPT !.pc = "gf_get", !.op = "get_features",
                     !.symbol = Upper(symbol), !.interval = interval, !.limit = limit,
                     !.max_news = max_news]]
    /\ UNCHANGED <<vm, pth, now, apikeys, cache, fcache, scache, stored, pin, pout>>

\* features.py:136-139, 34-41: a fresh entry is returned, else get_prices is called.
\* The cached payload has five keys, so "if cached" is true.
GF_Get(t) ==
    /\ L(t).pc = "gf_get"
    /\ LET ent == DictGet(fcache, FeatureKey(L(t))) IN
       IF ent # << >> /\ FeatureFresh(ent[1], Time)
       THEN th' = [th EXCEPT ![t] = [@ EXCEPT !.fpre = ent, !.ftchk = Time, !.pc = "gf_done",
                      !.fetched = ent[1].fetched, !.lat = ent[1].lat, !.tret = Time,
                      !.fret = [kind |-> "return", val |-> ent[1].val, err |-> ""]]]
       ELSE th' = [th EXCEPT ![t] = [@ EXCEPT !.fpre = ent, !.ftchk = Time, !.pc = "gp_get",
                      !.called = @ \cup {"get_prices"}]]
    /\ UNCHANGED <<vm, pth, now, apikeys, cache, fcache, scache, stored, pin, pout>>

\* variant of GF_Prices that answers a failed cascade with a defaulted payload
GF_PricesDefault(t) ==
    /\ L(t).pc = "gp_done"
    /\ L(t).op = "get_features"
    /\ LET failed  == L(t).ret.kind = "raise" \/ L(t).ret.data.prices = << >>
           payload == [NoPayload EXCEPT !.symbol = L(t).symbol, !.interval = L(t).interval]
       IN  /\ fcache' = IF failed
                        THEN DictSet(fcache, FeatureKey(L(t)),
                                     [ts |-> Time, val |-> payload, fetched |-> Time,
                                      lat |-> 0])
                        ELSE fcache
           /\ th' = [th EXCEPT ![t] = [@ EXCEPT
                        !.pc   = IF failed THEN "gf_done" ELSE "gf_news",
                        !.fret = IF failed
                                 THEN [kind |-> "return", val |-> payload, err |-> ""]
                                 ELSE @]]
    /\ UNCHANGED <<vm, pth, now, apikeys, cache, scache, stored, pin, pout>>

\* features.py:142-145: get_prices came back
GF_Prices(t) ==
    /\ L(t).pc = "gp_done"
    /\ L(t).op = "get_features"
    /\ th' = [th EXCEPT ![t] = [@ EXCEPT
                 !.pc   = IF L(t).ret.kind = "raise" \/ L(t).ret.data.prices = << >>
                          THEN "gf_done" ELSE "gf_news",
                 !.fret = IF L(t).ret.kind = "raise"
                          THEN [kind |-> "raise", val |-> NoPayload, err |-> "PriceServiceError"]
                          ELSE IF L(t).ret.data.prices = << >>
                          THEN [kind |-> "raise", val |-> NoPayload,
                                err |-> "RuntimeError: No price data available"]
                          ELSE @]]
    /\ UNCHANGED <<vm, pth, now, apikeys, cache, fcache, scache, stored, pin, pout>>

\* features.py:184-185: now = time.time(); items_news = search_news(...) if max_news > 0
GF_News(t) ==
    /\ L(t).pc = "gf_news"
    /\ IF L(t).max_news > 0
       THEN \E resp \in NewsResponses :
               LET r == search_news(L(t).symbol, L(t).max_news, resp, scache, Time) IN
               /\ scache' = r.store
               /\ th' = [th EXCEPT ![t] = [@ EXCEPT
                            !.now_l  = Time,
                            !.called = @ \cup {"search_news"},
                            !.news   = r.items,
                            !.pc     = IF r.raised THEN "gf_done" ELSE "gf_set",
                            !.fret   = IF r.raised
                                       THEN [kind |-> "raise", val |-> NoPayload, err |-> r.err]
                                       ELSE @]]
       ELSE /\ scache' = scache
            /\ th' = [th EXCEPT ![t] = [@ EXCEPT !.now_l = Time, !.news = << >>,
                         !.pc = "gf_set"]]
    /\ UNCHANGED <<vm, pth, now, apikeys, cache, fcache, stored, pin, pout>>

\* features.py:186-241: compute, _cache_set(key, payload), return payload
GF_Set(t) ==
    /\ L(t).pc = "gf_set"
    /\ LET payload == [symbol   |-> L(t).symbol,
                       asof     |-> L(t).now_l,
                       window   |-> [prices |-> L(t).limit, news |-> L(t).max_news],
                       features |-> Features(L(t).ret.data.prices, L(t).news, L(t).now_l),
                       interval |-> L(t).interval]
           lat     == L(t).lat + (Time - L(t).got)
       IN  /\ fcache' = DictSet(fcache, FeatureKey(L(t)),
                                [ts |-> Time, val |-> payload, fetched |-> L(t).fetched,
                                 lat |-> lat])
           /\ th' = [th EXCEPT ![t] = [@ EXCEPT !.pc = "gf_done",
                        !.lat = lat, !.tret = Time,
                        !.fret = [kind |-> "return", val |-> payload, err |-> ""]]]
    /\ UNCHANGED <<vm, pth, now, apikeys, cache, scache, stored, pin, pout>>

\* the request that called get_features gets its answer
GF_Return(t) ==
    /\ L(t).pc = "gf_done"
    /\ th' = [th EXCEPT ![t] = IdleLocals]
    /\ UNCHANGED <<vm, pth, now, apikeys, cache, fcache, scache, stored, pin, pout>>

-----------------------------------------------------------------------------
(* valuation.py: the lazily loaded classifier and predict_direction, as    *)
(* served by GET /stocks/{symbol}/predict (routes.py:102-109).             *)
(*                                                                         *)
(* The environment of the module is an input: whether the model file       *)
(* exists, what the unpickled classifier exposes (n_features_in_, whether  *)
(* predict_proba exists and how many columns it returns), and the feature  *)
(* orders found in the sidecar, the training CSV and the environment.      *)
(* A Python float is [q, e]: q the decimal value written in the source or  *)
(* printed by repr, e the sign of (stored double - q).  e decides how      *)
(* round(x, 4) resolves a decimal tie.                                     *)

Dbl(q, e) == [q |-> q, e |-> e]
Exact(q)  == Dbl(q, 0)

Half == <<1, 2>>
One  == <<1, 1>>

\* x >= 0.5 on doubles
GeHalf(d) == RLt(Half, d.q) \/ (d.q = Half /\ d.e >= 0)

\* round(prob, 4) (valuation.py:401-402): correctly rounded on the stored
\* double, so a decimal tie goes to the side the double lies on
ProbDigits == 4
ProbScale  == 10 ^ ProbDigits
Round4(d) ==
    LET x   == d.q
        ax  == <<Abs(x[1]), x[2]>>
        qr  == ScaledFloor(ax, ProbDigits)
        s   == IF x[1] < 0 THEN -d.e ELSE d.e
        tie == 2 * qr[2] = x[2]
        up  == 2 * qr[2] > x[2] \/ (tie /\ (s > 0 \/ (s = 0 /\ qr[1] % 2 = 1)))
        m   == IF up THEN qr[1] + 1 ELSE qr[1]
    IN  Rat(IF x[1] < 0 THEN -m ELSE m, ProbScale)

\* the error sign of 1.0 - x: exact when x is, otherwise either side
SubErr(d) == IF d.e = 0 THEN {0} ELSE {-1, 1}

\* the fallback order of _get_feature_order and the keys _assemble_features builds
LegacyOrder == <<"pe_ratio", "eps", "revenue_growth", "close_price">>

\* the keys of the technical feature vector (features.py:204-223)
TechnicalSchema ==
    <<"close", "return_1d", "return_5d", "return_21d", "volatility_21d",
      "rsi_14", "macd", "macd_signal", "macd_hist", "bb_percent_b",
      "volume_zscore_20", "news_sent_mean_24h", "news_sent_mean_7d",
      "news_count_24h", "news_count_7d", "news_count_total">>

\* f"_pad_{i}" for i in range(k)
PadNames ==
    <<"_pad_0", "_pad_1", "_pad_2", "_pad_3", "_pad_4", "_pad_5", "_pad_6",
      "_pad_7", "_pad_8", "_pad_9", "_pad_10", "_pad_11", "_pad_12",
      "_pad_13", "_pad_14", "_pad_15">>
Pad(k) == [i \in 1..k |-> PadNames[i]]

\* what the unpickled object exposes: n_features_in_ (0 when absent) and
\* predict_proba ("pair": two columns, "single": one column, "none": raises)
Classifier(n, proba) == [n_features_in_ |-> n, proba |-> proba]
Classifiers ==
    {Classifier(0, "pair"), Classifier(4, "pair"),
     Classifier(Len(TechnicalSchema), "pair"),
     Classifier(0, "single"), Classifier(0, "none")}

\* sidecar "feature_order", CSV header minus date/symbol/label, PREDICT_FEATURE_ORDER
OrderSource(sidecar, csv, env) == [sidecar |-> sidecar, csv |-> csv, env |-> env]
OrderSources ==
    {OrderSource(<< >>, << >>, << >>),
     OrderSource(<<"close_price", "pe_ratio", "eps", "revenue_growth", "label">>, << >>, << >>),
     OrderSource(<< >>, <<"pe_ratio", "eps">>, <<"eps">>),
     OrderSource(<< >>, << >>, <<"eps", "close_price">>)}

PredictEnv(file, clf, src) == [kind |-> "predict", file |-> file, clf |-> clf, src |-> src]
PredictEnvs == {PredictEnv(f, c, s) : f \in BOOLEAN, c \in Classifiers, s \in OrderSources}
Env == pin[1]

\* predict_proba(X)[0] with two columns: (down, up) as stored doubles
ProbaPairs ==
    {<<Exact(Half), Exact(Half)>>,
     <<Exact(<<31, 32>>), Exact(<<1, 32>>)>>,
     <<Dbl(<<3, 10>>, -1), Dbl(<<7, 10>>, -1)>>,
     <<Dbl(<<3999, 4000>>, 1), Dbl(<<1, 4000>>, 1)>>,
     <<Dbl(<<13, 20000>>, -1), Dbl(<<19987, 20000>>, -1)>>,
     <<Dbl(<<12501, 25000>>, 1), Dbl(<<12499, 25000>>, 1)>>}

\* predict_proba(X)[0] with one column
ProbaSingles == {<<Exact(One)>>, <<Exact(<<1, 4>>)>>}

\* predict(X)[0]
Classes == {0, 1}

Temperatures == {1, 2}
ClosePrices  == {F(0), F(150)}

PredictRequest(symbol, temperature, close) ==
    [symbol |-> symbol, temperature |-> temperature, close |-> close]
PredictRequests ==
    {PredictRequest(s, T, c) : s \in Symbols, T \in Temperatures, c \in ClosePrices}

\* _assemble_features (valuation.py:334-371): always the four legacy fields;
\* the fundamentals of get_metadata are fixed, the latest close is an input
\* (0.0 when get_prices fails)
_assemble_features(symbol, close) ==
    [pe_ratio |-> F(20), eps |-> F(5), revenue_growth |-> <<1, 10>>, close_price |-> close]

NoModel == << >>
_ModelWrapper(model, loaded_at) == <<[model |-> model, loaded_at |-> loaded_at]>>

\* _get_feature_order (valuation.py:296-328), the order it returns and caches
_get_feature_order(cached, model, src) ==
    IF cached # << >> THEN cached
    ELSE LET o1 == IF src.sidecar # << >> THEN src.sidecar
                   ELSE IF src.csv # << >> THEN src.csv
                   ELSE src.env
             n_expected == model.n_features_in_
             o2 == IF n_expected > 0 /\ Len(o1) > n_expected THEN SubSeq(o1, 1, n_expected)
                   ELSE IF n_expected > 0 /\ Len(o1) < n_expected
                        THEN o1 \o Pad(n_expected - Len(o1))
                   ELSE o1
         IN  IF o2 = << >> THEN LegacyOrder ELSE o2

\* features.get(k, 0.0)
FeatureGet(features, k) == IF k \in DOMAIN features THEN features[k] ELSE F(0)

\* row = [float(features.get(k, 0.0)) for k in order]
RowOf(features, order) == [i \in DOMAIN order |-> FeatureGet(features, order[i])]

NoLock == 0
\* loads and failed are history: the loads that succeeded, the errors loads raised
InitVm == [_model |-> NoModel, lock |-> NoLock, _FEATURE_ORDER |-> << >>, loads |-> 0,
           failed |-> {}]

IdlePredict ==
    [pc |-> "idle", req |-> << >>, features |-> << >>, wrap |-> NoModel,
     via |-> "", order |-> << >>, row |-> << >>, proba |-> << >>, prob_up |-> << >>,
     prob_down |-> << >>, result |-> << >>]

P(t) == pth[t]

\* _load_model returns wrap; via records the return statement taken
Loaded(p, wrap, via) == [p EXCEPT !.pc = "pd_order", !.wrap = wrap, !.via = via]

\* api_predict -> predict_direction(symbol=symbol.upper()): features is None,
\* so they are assembled; nothing of the request but the symbol is passed on
EnterPredict(t, requests) ==
    /\ P(t).pc = "idle"
    /\ \E r \in requests :
         pth' = [pth EXCEPT ![t] = [IdlePredict EXCEPT
                    !.pc = "lm_check1", !.req = r,
                    !.features = _assemble_features(Upper(r.symbol), r.close)]]
    /\ UNCHANGED <<vm, now, apikeys, cache, fcache, scache, stored, th, pin, pout>>

CallPredict(t) == EnterPredict(t, PredictRequests)

\* _load_model, first check without the lock (valuation.py:230-231)
LM_Check1(t) ==
    /\ P(t).pc = "lm_check1"
    /\ pth' = [pth EXCEPT ![t] =
                 IF vm._model # NoModel
                 THEN Loaded(@, vm._model, "fast")
                 ELSE [@ EXCEPT !.pc = "lm_acquire"]]
    /\ UNCHANGED <<vm, now, apikeys, cache, fcache, scache, stored, th, pin, pout>>

\* with _MODEL_LOCK, entered without waiting for the lock to be free
LM_AcquireNoLock(t) ==
    /\ P(t).pc = "lm_acquire"
    /\ vm' = [vm EXCEPT !.lock = t]
    /\ pth' = [pth EXCEPT ![t].pc = "lm_check2"]
    /\ UNCHANGED <<now, apikeys, cache, fcache, scache, stored, th, pin, pout>>

\* with _MODEL_LOCK: (valuation.py:232) blocks until the lock is free
LM_Acquire(t) ==
    /\ P(t).pc = "lm_acquire"
    /\ vm.lock = NoLock
    /\ vm' = [vm EXCEPT !.lock = t]
    /\ pth' = [pth EXCEPT ![t].pc = "lm_check2"]
    /\ UNCHANGED <<now, apikeys, cache, fcache, scache, stored, th, pin, pout>>

\* second check under the lock (valuation.py:233-234); returning leaves the with block
LM_Check2(t) ==
    /\ P(t).pc = "lm_check2"
    /\ IF vm._model # NoModel
       THEN /\ pth' = [pth EXCEPT ![t] = Loaded(@, vm._model, "locked")]
            /\ vm' = [vm EXCEPT !.lock = NoLock]
       ELSE /\ pth' = [pth EXCEPT ![t].pc = "lm_exists"]
            /\ UNCHANGED vm
    /\ UNCHANGED <<now, apikeys, cache, fcache, scache, stored, th, pin, pout>>

\* the exception leaves predict_direction and api_predict maps it to a status
Failed(p, err, status) ==
    [p EXCEPT !.pc = "pd_done",
              !.result = [kind |-> "raise", err |-> err, status |-> status]]

\* os.path.exists(MODEL_PATH) (valuation.py:236-237); FileNotFoundError is
\* answered with HTTP 503 (routes.py:106-107)
LM_Exists(t) ==
    /\ P(t).pc = "lm_exists"
    /\ IF Env.file
       THEN /\ pth' = [pth EXCEPT ![t].pc = "lm_load"]
            /\ UNCHANGED vm
       ELSE /\ pth' = [pth EXCEPT ![t] = Failed(@, "FileNotFoundError", 503)]
            /\ vm' = [vm EXCEPT !.lock = NoLock, !.failed = @ \cup {"FileNotFoundError"}]
    /\ UNCHANGED <<now, apikeys, cache, fcache, scache, stored, th, pin, pout>>

\* variant of LM_Load in which a failed load leaves the lock held
LM_LoadKeepsLock(t) ==
    /\ P(t).pc = "lm_load"
    /\ \E ok \in BOOLEAN :
         IF ok
         THEN /\ vm' = [vm EXCEPT !._model = _ModelWrapper(Env.clf, now),
                                  !.loads = @ + 1, !.lock = NoLock]
              /\ pth' = [pth EXCEPT ![t] = Loaded(@, _ModelWrapper(Env.clf, now), "load")]
         ELSE /\ vm' = [vm EXCEPT !.failed = @ \cup {"RuntimeError"}]
              /\ pth' = [pth EXCEPT ![t] = Failed(@, "RuntimeError", 502)]
    /\ UNCHANGED <<now, apikeys, cache, fcache, scache, stored, th, pin, pout>>

\* the model file is trained and saved while the service runs: from then on
\* os.path.exists(MODEL_PATH) (valuation.py:236) is true
ModelSaved ==
    /\ pin # << >>
    /\ pin[1].kind = "predict"
    /\ ~pin[1].file
    /\ pin' = <<[pin[1] EXCEPT !.file = TRUE]>>
    /\ UNCHANGED <<vm, pth, now, apikeys, cache, fcache, scache, stored, th, pout>>

\* joblib, then pickle (valuation.py:239-259): either yields the classifier,
\* or both fail with RuntimeError, answered with HTTP 502 (routes.py:108-109)
LM_Load(t) ==
    /\ P(t).pc = "lm_load"
    /\ \E ok \in BOOLEAN :
         IF ok
         THEN /\ vm' = [vm EXCEPT !._model = _ModelWrapper(Env.clf, now),
                                  !.loads = @ + 1, !.lock = NoLock]
              /\ pth' = [pth EXCEPT ![t] = Loaded(@, _ModelWrapper(Env.clf, now), "load")]
         ELSE /\ vm' = [vm EXCEPT !.lock = NoLock, !.failed = @ \cup {"RuntimeError"}]
              /\ pth' = [pth EXCEPT ![t] = Failed(@, "RuntimeError", 502)]
    /\ UNCHANGED <<now, apikeys, cache, fcache, scache, stored, th, pin, pout>>

\* order = _get_feature_order(wrap.model); row (valuation.py:384-388)
PD_Order(t) ==
    /\ P(t).pc = "pd_order"
    /\ LET order == _get_feature_order(vm._FEATURE_ORDER, P(t).wrap[1].model, Env.src)
       IN  /\ vm' = [vm EXCEPT !._FEATURE_ORDER = order]
           /\ pth' = [pth EXCEPT ![t] = [@ EXCEPT !.pc = "pd_predict", !.order = order,
                                                  !.row = RowOf(P(t).features, order)]]
    /\ UNCHANGED <<now, apikeys, cache, fcache, scache, stored, th, pin, pout>>

\* the returned dict with the label taken from the rounded probability
PredictedByRounded(p, proba, prob_up, prob_down) ==
    [p EXCEPT !.pc = "pd_done", !.proba = proba,
              !.prob_up = prob_up, !.prob_down = prob_down,
              !.result = [kind |-> "ok", status |-> 200,
                          prob_up |-> Round4(prob_up),
                          prob_down |-> Round4(prob_down),
                          label |-> IF ~RLt(Round4(prob_up), Half) THEN "UP" ELSE "DOWN",
                          features |-> p.row,
                          feature_order |-> p.order,
                          model_loaded_at |-> p.wrap[1].loaded_at]]

\* the returned dict (valuation.py:399-407) as the route serialises it
Predicted(p, proba, prob_up, prob_down) ==
    [p EXCEPT !.pc = "pd_done", !.proba = proba,
              !.prob_up = prob_up, !.prob_down = prob_down,
              !.result = [kind |-> "ok", status |-> 200,
                          prob_up |-> Round4(prob_up),
                          prob_down |-> Round4(prob_down),
                          label |-> IF GeHalf(prob_up) THEN "UP" ELSE "DOWN",
                          features |-> p.row,
                          feature_order |-> p.order,
                          model_loaded_at |-> p.wrap[1].loaded_at]]

\* predict_proba, or predict when it raises (valuation.py:390-397)
PD_Predict(t) ==
    /\ P(t).pc = "pd_predict"
    /\ LET kind == P(t).wrap[1].model.proba
       IN  CASE kind = "pair" ->
                  \E pr \in ProbaPairs :
                     pth' = [pth EXCEPT ![t] = Predicted(@, pr, pr[2], pr[1])]
             [] kind = "single" ->
                  \E pr \in ProbaSingles : \E e \in SubErr(pr[1]) :
                     pth' = [pth EXCEPT ![t] =
                               Predicted(@, pr, Dbl(RSub(One, pr[1].q), e), pr[1])]
             [] OTHER ->
                  \E y \in Classes : \E e \in {-1, 1} :
                     LET up == IF y = 1 THEN Dbl(<<7, 10>>, -1) ELSE Dbl(<<3, 10>>, -1)
                     IN  pth' = [pth EXCEPT ![t] =
                                   Predicted(@, <<y>>, up, Dbl(RSub(One, up.q), e))]
    /\ UNCHANGED <<vm, now, apikeys, cache, fcache, scache, stored, th, pin, pout>>

\* the response is sent
PD_Return(t) ==
    /\ P(t).pc = "pd_done"
    /\ pth' = [pth EXCEPT ![t] = IdlePredict]
    /\ UNCHANGED <<vm, now, apikeys, cache, fcache, scache, stored, th, pin, pout>>

-----------------------------------------------------------------------------
(* Specifications.                                                         *)

AllKeys == Providers \cup {"gnews"}
KeyConfigs == {AllKeys, {"twelve_data", "finnhub"}}

\* the feature specification runs with the Finnhub key only, with and without GNews
KeyConfigsF == {{"finnhub", "gnews"}, {"finnhub"}}

EmptyDict == << >>

InitWith(configs, inputs) ==
    /\ now = 0
    /\ apikeys \in configs
    /\ cache = EmptyDict
    /\ fcache = EmptyDict
    /\ scache = EmptyDict
    /\ stored = EmptyDict
    /\ th = [t \in Threads |-> IdleLocals]
    /\ pin \in inputs
    /\ pout = << >>
    /\ vm = InitVm
    /\ pth = [t \in Threads |-> IdlePredict]

NoInput == {<< >>}

Init  == InitWith(KeyConfigs, NoInput)
InitF == InitWith(KeyConfigsF, NoInput)

\* requests for prices, served one after the other
Next ==
    \/ Tick
    \/ CallGetPrices(1)
    \/ GP_Get(1)
    \/ GP_Ttl(1)
    \/ GP_Try(1)
    \/ GP_Set(1)
    \/ GP_Raise(1)
    \/ GP_Return(1)

Spec == Init /\ [][Next]_vars

\* requests for features, served one after the other
NextF ==
    \/ TickF
    \/ CallGetFeatures(1)
    \/ GF_Get(1)
    \/ GP_Get(1)
    \/ GP_Ttl(1)
    \/ GP_Try(1)
    \/ GP_Set(1)
    \/ GP_Raise(1)
    \/ GF_Prices(1)
    \/ GF_News(1)
    \/ GF_Set(1)
    \/ GF_Return(1)

SpecF == InitF /\ [][NextF]_vars

\* requests for the prices and for the features of one symbol, interval and
\* limit, served one after the other over a clock that runs beyond the two TTLs
\* together; both routes go through the one key of the price cache
MaxTimeS == 6

KeyConfigsS == {{"finnhub"}}

InitS == InitWith(KeyConfigsS, NoInput)

CallSamePrices(t) == EnterGetPrices(t, {"AAPL"}, {2})

CallSameFeatures(t) ==
    /\ L(t).pc = "idle"
    /\ th' = [th EXCEPT ![t] = [IdleLocals EXCEPT !.pc = "gf_get", !.op = "get_features",
                  !.symbol = "AAPL", !.interval = "1day", !.limit = 2, !.max_news = 0]]
    /\ UNCHANGED <<vm, pth, now, apikeys, cache, fcache, scache, stored, pin, pout>>

NextS ==
    \/ TickTo(MaxTimeS)
    \/ CallSamePrices(1)
    \/ GP_Return(1)
    \/ CallSameFeatures(1)
    \/ GF_Get(1)
    \/ GP_Get(1)
    \/ GP_Ttl(1)
    \/ GP_Try(1)
    \/ GP_Set(1)
    \/ GP_Raise(1)
    \/ GF_Prices(1)
    \/ GF_News(1)
    \/ GF_Set(1)
    \/ GF_Return(1)

SpecS == InitS /\ [][NextS]_vars

\* searches for news, served one after the other, over a clock that runs beyond
\* the TTL of the search cache
MaxTimeN == 3

InitSearch == InitWith({AllKeys}, NoInput)

NextSearch ==
    \/ TickTo(MaxTimeN)
    \/ CallSearchNews

SpecSearch == InitSearch /\ [][NextSearch]_vars

\* Concurrent requests for the prices of one key: the routes are plain "def"
\* handlers, which FastAPI runs on a thread pool, so the steps of two calls
\* interleave.  Only the Finnhub key is set.
KeyConfigsConc == {{"finnhub"}}

InitConc == InitWith(KeyConfigsConc, NoInput)

CallSameKey(t) == EnterGetPrices(t, {"AAPL"}, {1})

NextConc ==
    \/ Tick
    \/ \E t \in Threads :
          \/ CallSameKey(t)
          \/ GP_Get(t)
          \/ GP_Ttl(t)
          \/ GP_Try(t)
          \/ GP_Set(t)
          \/ GP_Raise(t)
          \/ GP_Return(t)

SpecConc == InitConc /\ [][NextConc]_vars

-----------------------------------------------------------------------------
(* The feature vector as a function of the price series: the inputs are    *)
(* series of 1..MaxBars bars of a few shapes, the action applies Features. *)

MaxBars == 36

\* the closes of the specification's end-to-end scenario
ZigCloses == <<10, 11, 12, 11, 10, 9, 8, 9, 10, 11, 12, 13, 14, 15, 16, 17, 18, 19, 20, 21>>

Shapes == {"flat", "up", "down", "zig", "zero"}

\* the lengths on which a shape's arithmetic stays within TLC's 32-bit integers
ShapeMax(shape) ==
    CASE shape = "zig"  -> Len(ZigCloses)
      [] shape = "zero" -> 26 + 9 - 1
      [] OTHER          -> MaxBars

CloseAt(shape, len, i) ==
    CASE shape = "flat" -> 10
      [] shape = "up"   -> IF i = len THEN 20 ELSE 10
      [] shape = "down" -> IF i = len THEN 10 ELSE 20
      [] shape = "zig"  -> ZigCloses[i]
      [] shape = "zero" -> IF i = 1 THEN 0 ELSE 10      \* one close of 0.0

BarsOf(shape, len) ==
    [i \in 1..len |->
        Bar((BaseDay + i) * DaySecs, CloseAt(shape, len, i), CloseAt(shape, len, i) + 1,
            CloseAt(shape, len, i) - 1, CloseAt(shape, len, i), 10 * CloseAt(shape, len, i))]

Min(a, b) == IF a < b THEN a ELSE b

FeatureInputs ==
    UNION { { [kind |-> "features", shape |-> sh, items |-> BarsOf(sh, len)] :
                len \in 1..Min(ShapeMax(sh), MaxBars) } : sh \in Shapes }

ApplyFeatures ==
    /\ pin # << >>
    /\ pin[1].kind = "features"
    /\ pout = << >>
    /\ pout' = <<Features(pin[1].items, <<ArtFresh>>, EpochBase)>>
    /\ UNCHANGED <<vm, pth, now, apikeys, cache, fcache, scache, stored, th, pin>>

-----------------------------------------------------------------------------
(* The news aggregates as a function of the list search_news returned: the *)
(* inputs are lists of up to MaxArticles items around the two cutoffs, the *)
(* action applies Features at time.time() = EpochBase.                     *)

MaxArticles == 3

\* items as search_news builds them (news.py:121-141): published_at is an int,
\* 0 when the date is missing or unparseable, and the score is a float
ArticleAlphabet ==
    { Article(EpochBase - 3600, Rat(1, 2)),
      Article(EpochBase - 24 * 3600, Rat(-1, 4)),
      Article(EpochBase - 24 * 3600 - 1, Rat(3, 4)),
      Article(EpochBase - 7 * 24 * 3600, Rat(1, 3)),
      Article(EpochBase - 7 * 24 * 3600 - 1, F(-1)),
      Article(0, RZero) }

NewsInputs ==
    { [kind |-> "news", items |-> BarsOf("up", 2), news |-> n] :
        n \in UNION {[1..k -> ArticleAlphabet] : k \in 0..MaxArticles} }

ApplyNews ==
    /\ pin # << >>
    /\ pin[1].kind = "news"
    /\ pout = << >>
    /\ pout' = <<Features(pin[1].items, pin[1].news, EpochBase)>>
    /\ UNCHANGED <<vm, pth, now, apikeys, cache, fcache, scache, stored, th, pin>>

-----------------------------------------------------------------------------
(* The adapters as functions of the provider payload: the inputs are       *)
(* payloads of up to MaxRows rows, the action applies the adapter.         *)

MaxRows == 3
AdapterLimits == {0, 1, 2}

SeqsUpTo(S, n) == UNION {[1..k -> S] : k \in 0..n}

\* row alphabet: three dates, one of them also written as a datetime at midnight
\* (another string, the same instant), an unparseable date, an unparseable price
RowAlphabet ==
    { Row(Dt("date", BaseDay, 0), TRUE, 10, 100),
      Row(Dt("date", BaseDay + 1, 0), TRUE, 11, 110),
      Row(Dt("date", BaseDay + 2, 0), TRUE, 12, 120),
      Row(Dt("datetime", BaseDay, 0), TRUE, 13, 130),
      Row(Dt("bad", 0, 0), TRUE, 14, 140),
      Row(Dt("date", BaseDay + 1, 0), FALSE, 0, 0) }

\* the keys of a JSON object are distinct strings
DistinctDates(rows) == \A i, j \in DOMAIN rows : rows[i].dt = rows[j].dt => i = j

AlphaPayloads  == {HttpFail, ErrPayload}
                  \cup {Rows(r) : r \in {x \in SeqsUpTo(RowAlphabet, MaxRows) : DistinctDates(x)}}
TwelvePayloads == {HttpFail, ErrPayload} \cup {Rows(r) : r \in SeqsUpTo(RowAlphabet, MaxRows)}

TsCells == {Cell(TRUE, BaseDay * DaySecs), Cell(TRUE, (BaseDay + 1) * DaySecs), Cell(FALSE, 0)}
\* the price arrays: as long as t, one short, or with an unparseable last cell
PriceCells(t, how) ==
    CASE how = "full"  -> [i \in 1..Len(t) |-> Cell(TRUE, 40 + i)]
      [] how = "short" -> [i \in 1..(Len(t) - 1) |-> Cell(TRUE, 40 + i)]
      [] how = "bad"   -> [i \in 1..Len(t) |-> Cell(i < Len(t), 40 + i)]
FinnhubPayloads ==
    {FinnhubFail, FinnhubResp(FALSE, << >>, << >>, FALSE)}
    \cup {FinnhubResp(TRUE, t, PriceCells(t, how), hv) :
            t \in SeqsUpTo(TsCells, MaxRows), how \in {"full", "short", "bad"}, hv \in BOOLEAN}

Payloads(provider) ==
    CASE provider = "alpha_vantage" -> AlphaPayloads
      [] provider = "twelve_data"   -> TwelvePayloads
      [] provider = "finnhub"       -> FinnhubPayloads

AdapterInputs ==
    UNION { { [kind |-> "adapter", provider |-> p, limit |-> l, resp |-> r] :
                l \in AdapterLimits, r \in Payloads(p) } : p \in Providers }

ApplyAdapter ==
    /\ pin # << >>
    /\ pin[1].kind = "adapter"
    /\ pout = << >>
    /\ pout' = <<CallAdapter(pin[1].provider, "aapl", "1day", pin[1].limit, pin[1].resp)>>
    /\ UNCHANGED <<vm, pth, now, apikeys, cache, fcache, scache, stored, th, pin>>

-----------------------------------------------------------------------------
(* The indicator functions on their own: the inputs are a series with the  *)
(* window, period or MACD periods to apply; the action applies the         *)
(* function the input names.                                               *)

MaxWindow  == 3                        \* windows and MACD periods are 1..MaxWindow
MaxSeries  == 4                        \* window inputs have up to MaxSeries values
RsiMaxLen  == 17                       \* RSI inputs have up to RsiMaxLen values
MacdMaxLen == 7                        \* MACD inputs have up to MacdMaxLen values
RsiPeriod  == 14                       \* features.py:167

\* floats of at most three significant bits
WindowAlphabet == {F(1), <<11, 8>>, <<7, 4>>}

WindowInputs ==
    { [kind |-> "window", values |-> v, n |-> n] :
        v \in SeqsUpTo(WindowAlphabet, MaxSeries), n \in 1..MaxWindow }

\* a series is a start and a cycle of steps
StepCycles == { <<1>>, <<1, 2>>, <<3, 1, 2>>, <<0>>, <<1, 0>>, <<1, -1>>, <<-1>>, <<2, -1>> }
SeriesStart == 20

RECURSIVE StepSeriesAt(_, _)
StepSeriesAt(steps, i) ==
    IF i = 1 THEN SeriesStart
    ELSE StepSeriesAt(steps, i - 1) + steps[((i - 2) % Len(steps)) + 1]

StepSeries(steps, len) == [i \in 1..len |-> F(StepSeriesAt(steps, i))]

RsiInputs ==
    { [kind |-> "rsi", values |-> StepSeries(st, len)] :
        st \in StepCycles, len \in 0..RsiMaxLen }

MacdCycles == { <<1>>, <<0>>, <<1, -1>> }

MacdInputs ==
    { [kind |-> "macd", values |-> StepSeries(st, len), fast |-> f, slow |-> sl, signal |-> sg] :
        st \in MacdCycles, len \in 0..MacdMaxLen,
        f \in 1..MaxWindow, sl \in 1..MaxWindow, sg \in 1..MaxWindow }

\* Bollinger inputs: a tail of BbWindow closes, given by distance from the
\* end, behind a prefix of older closes at another level
BbWindow == 20                         \* features.py:170
BbMaxLen == 22
BbPrefix == 50

BbTails == {"flat", "flat0", "mid", "wide", "off"}

BbTailAt(tail, k) ==
    CASE tail = "flat"  -> 10
      [] tail = "flat0" -> 0
      [] tail = "mid"   -> IF k = 0 \/ k = BbWindow - 1 THEN 10 ELSE IF k % 2 = 1 THEN 9 ELSE 11
      [] tail = "wide"  -> IF k = 0 \/ k = BbWindow - 1 THEN 10 ELSE IF k % 2 = 1 THEN 13 ELSE 7
      [] tail = "off"   -> IF k = 0 THEN 20 ELSE 10

BbSeries(tail, len) ==
    [i \in 1..len |-> IF len - i < BbWindow THEN F(BbTailAt(tail, len - i)) ELSE F(BbPrefix)]

BbInputs ==
    { [kind |-> "bb", values |-> BbSeries(tl, len)] :
        tl \in BbTails, len \in (BbWindow - 1)..BbMaxLen }

MathInputs == WindowInputs \cup RsiInputs \cup MacdInputs \cup BbInputs

ApplyMath ==
    /\ pin # << >>
    /\ pin[1].kind \in {"window", "rsi", "macd", "bb"}
    /\ pout = << >>
    /\ pout' = CASE pin[1].kind = "window" ->
                    <<[sma    |-> _sma_float(pin[1].values, pin[1].n),
                       stddev |-> _stddev_float(pin[1].values, pin[1].n),
                       ema    |-> _ema_float(pin[1].values, pin[1].n)]>>
                [] pin[1].kind = "rsi" ->
                    <<[rsi |-> _rsi(pin[1].values, RsiPeriod)]>>
                [] pin[1].kind = "macd" ->
                    <<[macd |-> _macd(pin[1].values, pin[1].fast, pin[1].slow, pin[1].signal)]>>
                [] pin[1].kind = "bb" ->
                    <<[bb_percent_b |-> RoundOpt(BbPercentB(pin[1].values))]>>
    /\ UNCHANGED <<vm, pth, now, apikeys, cache, fcache, scache, stored, th, pin>>

InitMath == InitWith({AllKeys}, {<<x>> : x \in MathInputs})

NextMath == ApplyMath

SpecMath == InitMath /\ [][NextMath]_vars

-----------------------------------------------------------------------------
(* A read of each TTL cache on its own: the inputs are a store of two      *)
(* entries, the key read and the clock; the action applies the read as the *)
(* caller of the cache performs it and yields whether the stored value was *)
(* served and the store afterwards.                                        *)

_CACHE_TTL_ARTICLE == 3                \* news.py:42, in model seconds
METADATA_CACHE_TTL == 2                \* metadata_services.py:25, in model seconds

CacheMaxTs  == 2                       \* entries are stored at 0..CacheMaxTs
CacheMaxAge == 4                       \* and read 0..CacheMaxAge later

Caches == {"prices", "features", "news_search", "news_article", "metadata"}

TtlOf(c) ==
    CASE c = "prices"       -> CACHE_TTL
      [] c = "features"     -> FEATURES_CACHE_TTL
      [] c = "news_search"  -> _CACHE_TTL_SEARCH
      [] c = "news_article" -> _CACHE_TTL_ARTICLE
      [] c = "metadata"     -> METADATA_CACHE_TTL

\* metadata_services.py:43-44
_is_mem_fresh(ts, t) == t - ts < METADATA_CACHE_TTL

\* [served, store]: prices._cache_get and "if cached" (prices.py:68-75, 109-111);
\* the stored dict is never empty
PricesRead(store, key, t) ==
    LET item == DictGet(store, key) IN
    IF item = << >> THEN [served |-> FALSE, store |-> store]
    ELSE IF Expired(item[1], t) THEN [served |-> FALSE, store |-> DictPop(store, key)]
    ELSE [served |-> TRUE, store |-> store]

\* features._cache_get and "if cached" (features.py:34-41, 137-139)
FeaturesRead(store, key, t) ==
    LET ent == DictGet(store, key) IN
    [served |-> ent # << >> /\ FeatureFresh(ent[1], t), store |-> store]

\* news._cache_get and "if cached" (news.py:59-66, 104-106, 164-166): an empty
\* list is falsy, an article dict never is
NewsRead(store, key, ttl, t) ==
    LET item == DictGet(store, key)
        cached == NewsCacheGet(store, key, ttl, t)
    IN  [served |-> item # << >> /\ cached # << >>, store |-> store]

\* get_metadata (metadata_services.py:100-104)
MetadataRead(store, key, t) ==
    LET cached == DictGet(store, key) IN
    [served |-> cached # << >> /\ _is_mem_fresh(cached[1].ts, t), store |-> store]

CacheRead(c, store, key, t) ==
    CASE c = "prices"       -> PricesRead(store, key, t)
      [] c = "features"     -> FeaturesRead(store, key, t)
      [] c = "news_search"  -> NewsRead(store, key, _CACHE_TTL_SEARCH, t)
      [] c = "news_article" -> NewsRead(store, key, _CACHE_TTL_ARTICLE, t)
      [] c = "metadata"     -> MetadataRead(store, key, t)

\* what each cache stores: prices [data, ts], the others (ts, value)
StoredEntry(c, ts, val) ==
    IF c = "prices" THEN [data |-> val, ts |-> ts] ELSE [ts |-> ts, val |-> val]

\* values a call can have stored: a list of articles, possibly empty, in the
\* search cache; elsewhere a value that is never empty
StoredValues(c) == IF c = "news_search" THEN {<< >>, <<ArtFresh>>} ELSE {<<ArtFresh>>}

CacheInputs ==
    UNION { { [kind |-> "cache", cache |-> c, key |-> "read",
               store |-> [k \in {"read", "other"} |->
                            StoredEntry(c, IF k = "read" THEN ts ELSE 0, v)],
               ts |-> ts, tnow |-> ts + age] :
                ts \in 0..CacheMaxTs, age \in 0..CacheMaxAge, v \in StoredValues(c) } :
            c \in Caches }

ApplyCacheRead ==
    /\ pin # << >>
    /\ pin[1].kind = "cache"
    /\ pout = << >>
    /\ pout' = <<CacheRead(pin[1].cache, pin[1].store, pin[1].key, pin[1].tnow)>>
    /\ UNCHANGED <<vm, pth, now, apikeys, cache, fcache, scache, stored, th, pin>>

InitCache == InitWith({AllKeys}, {<<x>> : x \in CacheInputs})

NextCache == ApplyCacheRead

SpecCache == InitCache /\ [][NextCache]_vars

\* one request thread, every environment
InitPredict == InitWith({AllKeys}, {<<x>> : x \in PredictEnvs})

NextPredict ==
    \/ Tick
    \/ \E t \in {1} :
         \/ CallPredict(t)
         \/ LM_Check1(t)
         \/ LM_Acquire(t)
         \/ LM_Check2(t)
         \/ LM_Exists(t)
         \/ LM_Load(t)
         \/ PD_Order(t)
         \/ PD_Predict(t)
         \/ PD_Return(t)

SpecPredict == InitPredict /\ [][NextPredict]_vars

\* concurrent request threads, one classifier and one request
LoadEnvs ==
    {PredictEnv(f, Classifier(0, "none"), OrderSource(<< >>, << >>, << >>)) : f \in BOOLEAN}
LoadRequests == {PredictRequest("AAPL", 1, F(150))}

InitLoad == InitWith({AllKeys}, {<<x>> : x \in LoadEnvs})

CallSamePredict(t) == EnterPredict(t, LoadRequests)

NextLoad ==
    \/ Tick
    \/ ModelSaved
    \/ \E t \in Threads :
         \/ CallSamePredict(t)
         \/ LM_Check1(t)
         \/ LM_Acquire(t)
         \/ LM_Check2(t)
         \/ LM_Exists(t)
         \/ LM_Load(t)
         \/ PD_Order(t)
         \/ PD_Predict(t)
         \/ PD_Return(t)

SpecLoad == InitLoad /\ [][NextLoad]_vars

InitInd == InitWith({AllKeys}, {<<x>> : x \in FeatureInputs})

NextInd == ApplyFeatures

SpecInd == InitInd /\ [][NextInd]_vars

InitNews == InitWith({AllKeys}, {<<x>> : x \in NewsInputs})

NextNews == ApplyNews

SpecNews == InitNews /\ [][NextNews]_vars

InitAdapter == InitWith({AllKeys}, {<<x>> : x \in AdapterInputs})

NextAdapter == ApplyAdapter

SpecAdapter == InitAdapter /\ [][NextAdapter]_vars

-----------------------------------------------------------------------------
(* Properties of get_prices (specifications Spec and SpecConc).            *)

\* C1: in a call that misses the cache the adapters are invoked in the order of
\* PROVIDER_ORDER, one per position, and an adapter that returned a series of at
\* least one bar is the last one the call invokes.
C1_CascadeInOrder ==
    \A t \in Threads :
        LET tr == L(t).tried IN
        /\ Len(tr) <= Len(PROVIDER_ORDER)
        /\ \A i \in DOMAIN tr : tr[i].provider = PROVIDER_ORDER[i]
        /\ \A i \in DOMAIN tr : (~tr[i].raised /\ tr[i].bars >= 1) => i = Len(tr)

\* a call answered by the second adapter after the first failed: the third was not invoked
C1_Witness ==
    \E t \in Threads :
        /\ L(t).pc = "gp_done"
        /\ L(t).ret.kind = "return"
        /\ Len(L(t).tried) = 2
        /\ L(t).tried[2].bars >= 1

\* C2: a call that reads the cache less than CACHE_TTL after the series of its key
\* was stored (pre is the entry stored last) returns that series and invokes no
\* adapter.
C2_HitWithinTtl ==
    \A t \in Threads :
        (/\ L(t).pc = "gp_done"
         /\ L(t).pre # << >>
         /\ L(t).tchk - L(t).pre[1].ts < CACHE_TTL)
        => /\ L(t).ret.kind = "return"
           /\ L(t).ret.data = L(t).pre[1].data
           /\ L(t).tried = << >>

\* a lower-case request served, one second after the store, from the entry of the
\* upper-case key
C2_Witness ==
    \E t \in Threads :
        /\ L(t).pc = "gp_done"
        /\ L(t).pre # << >>
        /\ L(t).tchk - L(t).pre[1].ts = CACHE_TTL - 1
        /\ L(t).symbol = "aapl"
        /\ L(t).ret.data = L(t).pre[1].data
        /\ L(t).ret.data.symbol = "AAPL"
        /\ L(t).tried = << >>

\* C3 as stated: a call that reads the cache CACHE_TTL or more after the store,
\* CACHE_TTL exactly included, runs the cascade again.
C3_RefetchFromTtl ==
    \A t \in Threads :
        (/\ L(t).pc = "gp_done"
         /\ L(t).pre # << >>
         /\ L(t).tchk - L(t).pre[1].ts >= CACHE_TTL)
        => L(t).tried # << >>

\* C3: a call that reads the cache more than CACHE_TTL after the store runs the
\* cascade again; a call that finds the entry exactly CACHE_TTL after the store is
\* still served the cached series, without any adapter.
C3_RefetchAfterTtl ==
    \A t \in Threads :
        L(t).pc = "gp_done"
        => /\ (L(t).pre # << >> /\ L(t).tchk - L(t).pre[1].ts > CACHE_TTL)
                => L(t).tried # << >>
           /\ (L(t).item # << >> /\ L(t).tchk - L(t).item[1].ts = CACHE_TTL)
                => (L(t).tried = << >> /\ L(t).ret.data = L(t).item[1].data)

\* a call that found the entry in the cache, older than CACHE_TTL, and ran the cascade
C3_Witness ==
    \E t \in Threads :
        /\ L(t).pc = "gp_done"
        /\ L(t).pre # << >>
        /\ L(t).item = L(t).pre
        /\ L(t).tchk - L(t).pre[1].ts > CACHE_TTL
        /\ L(t).tried # << >>

\* C4: a call ends by returning the series of the cache or of the adapter it invoked
\* last, or by raising PriceServiceError after every provider of the order was
\* invoked; after an adapter raised, the call goes on with the next provider.
C4_TwoOutcomes ==
    \A t \in Threads :
        LET l  == L(t)
            tr == l.tried
        IN  /\ l.ret.kind \in {"none", "return", "raise"}
            /\ l.pc = "gp_done" => l.ret.kind \in {"return", "raise"}
            /\ l.ret.kind = "return"
                 => \/ /\ tr = << >>
                       /\ l.item # << >>
                       /\ l.ret.data = l.item[1].data
                    \/ /\ tr # << >>
                       /\ ~tr[Len(tr)].raised
                       /\ l.ret.data.provider = tr[Len(tr)].provider
                       /\ Len(l.ret.data.prices) = tr[Len(tr)].bars
            /\ l.ret.kind = "raise"
                 => /\ l.ret.err = "PriceServiceError"
                    /\ {tr[i].provider : i \in DOMAIN tr} = Providers
            /\ \A i \in DOMAIN tr :
                 tr[i].raised
                 => \/ i < Len(tr)
                    \/ i = Len(PROVIDER_ORDER)
                    \/ (l.pc = "gp_try" /\ l.idx = i + 1)

\* a call whose first adapter raised and which returned the series of a later one
C4_Witness ==
    \E t \in Threads :
        /\ L(t).pc = "gp_done"
        /\ L(t).ret.kind = "return"
        /\ L(t).tried # << >>
        /\ L(t).tried[1].raised

\* C5 as stated: the error of a failed call carries the error of the adapter that
\* was tried last.
C5_ErrorOfLastAdapter ==
    \A t \in Threads :
        L(t).ret.kind = "raise"
        => L(t).ret.last_err = <<L(t).tried[Len(L(t).tried)].err>>

\* C5: the error of a failed call carries the exception of the last adapter that
\* raised, which need not be the adapter tried last, and None if no adapter raised.
C5_ErrorOfLastRaise ==
    \A t \in Threads :
        L(t).ret.kind = "raise"
        => LET tr     == L(t).tried
               raised == {i \in DOMAIN tr : tr[i].raised}
           IN  IF raised = {} THEN L(t).ret.last_err = << >>
               ELSE \E i \in raised :
                       /\ \A j \in raised : j <= i
                       /\ L(t).ret.last_err = <<tr[i].err>>

\* a failed call whose last adapter returned no bars: the error is the second adapter's
C5_Witness ==
    \E t \in Threads :
        /\ L(t).ret.kind = "raise"
        /\ Len(L(t).tried) = Len(PROVIDER_ORDER)
        /\ ~L(t).tried[3].raised
        /\ L(t).tried[2].raised
        /\ L(t).ret.last_err = <<L(t).tried[2].err>>

\* C6: every entry of the price cache and every series get_prices returns has at
\* least one bar.
C6_NeverEmpty ==
    /\ \A k \in DOMAIN cache : cache[k].data.prices # << >>
    /\ \A t \in Threads : L(t).ret.kind = "return" => L(t).ret.data.prices # << >>

\* an adapter returned a series of no bars and the call returned a later adapter's
C6_Witness ==
    \E t \in Threads :
        /\ L(t).pc = "gp_done"
        /\ L(t).ret.kind = "return"
        /\ \E i \in DOMAIN L(t).tried : ~L(t).tried[i].raised /\ L(t).tried[i].bars = 0
        /\ PriceKey(L(t)) \in DOMAIN cache

-----------------------------------------------------------------------------
\* the call found an expired entry for its key and every adapter then failed
ExpiredAndFailed(t) ==
    /\ L(t).op = "get_prices"
    /\ L(t).pc = "gp_done"
    /\ L(t).item # << >>
    /\ Expired(L(t).item[1], L(t).tchk)
    /\ \A i \in DOMAIN L(t).tried : L(t).tried[i].raised \/ L(t).tried[i].bars = 0

\* C30: a call of get_prices that finds the entry of its key expired and whose
\* whole cascade fails raises, and does not return the expired series; the cache
\* then holds no entry for the key and the entries of all other keys are as
\* the call found them.
C30_NoStaleOnFailure ==
    \A t \in Threads :
        ExpiredAndFailed(t)
        => /\ L(t).ret.kind = "raise"
           /\ L(t).ret.data = NoData
           /\ Len(L(t).tried) = Len(PROVIDER_ORDER)
           /\ PriceKey(L(t)) \notin DOMAIN cache
           /\ cache = DictPop(L(t).cpre, PriceKey(L(t)))

\* such a call ended while the cache held a fresh entry of another key
C30_Witness ==
    \E t \in Threads :
        /\ ExpiredAndFailed(t)
        /\ L(t).ret.kind = "raise"
        /\ L(t).cpre[PriceKey(L(t))] = L(t).item[1]
        /\ \E k \in DOMAIN cache : ~Expired(cache[k], Time)

-----------------------------------------------------------------------------
(* Properties of the adapters (specification SpecAdapter).                 *)

\* C7: the series an adapter returns has strictly increasing timestamps.
C7_StrictlyIncreasing ==
    (pout # << >> /\ pin[1].kind = "adapter" /\ ~pout[1].raised)
    => \A i \in 1..(Len(pout[1].data.prices) - 1) :
          pout[1].data.prices[i].timestamp < pout[1].data.prices[i + 1].timestamp

\* the bars an adapter parsed out of the payload, in payload order
ParsedItems(provider, resp) ==
    CASE provider = "alpha_vantage" -> AlphaItems(resp.rows)
      [] provider = "twelve_data"   -> TwelveItems(resp.rows)
      [] provider = "finnhub"       -> FinnhubItems(resp)

AdapterReturned == pout # << >> /\ pin[1].kind = "adapter" /\ ~pout[1].raised

\* r is all sorted ascending and cut to its n bars of largest timestamp
MostRecentOf(r, all, n) ==
    /\ \A i \in 1..(Len(r) - 1) : r[i].timestamp <= r[i + 1].timestamp
    /\ Len(r) = Min(n, Len(all))
    /\ \E f \in [1..Len(r) -> 1..Len(all)] :
          /\ \A i, j \in 1..Len(r) : f[i] = f[j] => i = j
          /\ \A i \in 1..Len(r) : r[i] = all[f[i]]
          /\ \A j \in (1..Len(all)) \ {f[i] : i \in 1..Len(r)} :
                \A i \in 1..Len(r) : all[j].timestamp <= r[i].timestamp

\* C24 as claimed: for every limit >= 0 the series an adapter returns is its
\* parsed bars sorted ascending and cut to the limit bars of largest timestamp,
\* so it has at most limit bars.
C24_SortedAndTruncated ==
    AdapterReturned
    => MostRecentOf(pout[1].data.prices, ParsedItems(pin[1].provider, pin[1].resp),
                    pin[1].limit)

\* C24: for every limit >= 1 the series an adapter returns is its parsed bars
\* sorted ascending and cut to the limit bars of largest timestamp; with limit 0
\* it is all the parsed bars, sorted ascending.
C24_SortedAndTruncatedFromOne ==
    AdapterReturned
    => LET all == ParsedItems(pin[1].provider, pin[1].resp) IN
       MostRecentOf(pout[1].data.prices, all,
                    IF pin[1].limit = 0 THEN Len(all) ELSE pin[1].limit)

\* an adapter returned after more rows parsed than the limit asked for
C24_Witness ==
    /\ AdapterReturned
    /\ pin[1].limit >= 1
    /\ Len(ParsedItems(pin[1].provider, pin[1].resp)) > pin[1].limit
    /\ Len(pout[1].data.prices) = pin[1].limit

\* the response arrived and carries the provider's success marker
ResponseOk(provider, resp) ==
    /\ resp.http_ok
    /\ resp.marker_ok
    /\ provider = "alpha_vantage" => resp.rows # << >>

\* the number of rows of the payload every field of which converts
ParseableRows(provider, resp) ==
    IF provider = "finnhub"
    THEN Cardinality({i \in 1..Len(resp.t) : FinnhubCellsOk(resp, i)})
    ELSE Cardinality({i \in 1..Len(resp.rows) : resp.rows[i].ok /\ DtParses(resp.rows[i].dt)})

\* C25: on a successful response every adapter returns, and what it returns (all
\* of it, with limit 0) has one bar per parseable row: unparseable rows are
\* dropped and never make the call fail.
C25_BadRowsSkipped ==
    (/\ pout # << >>
     /\ pin[1].kind = "adapter"
     /\ ResponseOk(pin[1].provider, pin[1].resp))
    => /\ ~pout[1].raised
       /\ pin[1].limit = 0
          => Len(pout[1].data.prices) = ParseableRows(pin[1].provider, pin[1].resp)

-----------------------------------------------------------------------------
(* Properties of get_features (specifications SpecF and SpecInd).          *)

\* C8: when get_prices raised or returned no bars, get_features raises, returns no
\* payload and leaves the entry of its key in the features cache as it found it.
C8_NoPricesIsFatal ==
    \A t \in Threads :
        (/\ L(t).op = "get_features"
         /\ L(t).ret.kind = "raise" \/ (L(t).ret.kind = "return" /\ L(t).ret.data.prices = << >>))
        => /\ L(t).pc \in {"gp_done", "gf_done"}
           /\ DictGet(fcache, FeatureKey(L(t))) = L(t).fpre
           /\ L(t).pc = "gf_done" => (L(t).fret.kind = "raise" /\ L(t).fret.val = NoPayload)

\* get_features ended on a failed cascade, with nothing cached for its key
C8_Witness ==
    \E t \in Threads :
        /\ L(t).pc = "gf_done"
        /\ L(t).ret.kind = "raise"
        /\ L(t).fret.kind = "raise"
        /\ FeatureKey(L(t)) \notin DOMAIN fcache

\* C9: a call that reads the features cache less than FEATURES_CACHE_TTL after the
\* payload of its key was stored returns that payload and calls neither get_prices
\* nor search_news; a call that reads it after the TTL has passed calls get_prices.
C9_FeaturesHit ==
    \A t \in Threads :
        (L(t).pc = "gf_done" /\ L(t).fpre # << >>)
        => /\ L(t).ftchk - L(t).fpre[1].ts < FEATURES_CACHE_TTL
                => /\ L(t).fret.kind = "return"
                   /\ L(t).fret.val = L(t).fpre[1].val
                   /\ L(t).called = {}
           /\ L(t).ftchk - L(t).fpre[1].ts > FEATURES_CACHE_TTL
                => "get_prices" \in L(t).called

\* a call served from the features cache some time after the store
C9_Witness ==
    \E t \in Threads :
        /\ L(t).pc = "gf_done"
        /\ L(t).fpre # << >>
        /\ L(t).ftchk > L(t).fpre[1].ts
        /\ L(t).ftchk - L(t).fpre[1].ts < FEATURES_CACHE_TTL
        /\ L(t).fret.val = L(t).fpre[1].val
        /\ L(t).called = {}

\* C10: on a series of n bars the features that lack history are None: return_1d
\* below 2 bars, return_5d below 6, return_21d below 22, volatility_21d below 21
\* daily returns, rsi_14 up to 14 bars, the three MACD values below 35 bars,
\* bb_percent_b and volume_zscore_20 below 20 bars; every required key is present.
C10_NullWithoutHistory ==
    (pout # << >> /\ pin[1].kind = "features")
    => LET f     == pout[1]
           items == pin[1].items
           n     == Len(items)
           nrets == Cardinality({i \in 2..n : items[i - 1].close # 0})
       IN  /\ n < 2 => f.return_1d = None
           /\ n < 6 => f.return_5d = None
           /\ n < 22 => f.return_21d = None
           /\ nrets < 21 => f.volatility_21d = None
           /\ n <= 14 => f.rsi_14 = None
           /\ n < 35 => (f.macd = None /\ f.macd_signal = None /\ f.macd_hist = None)
           /\ n < 20 => (f.bb_percent_b = None /\ f.volume_zscore_20 = None)
           /\ {"return_1d", "return_5d", "return_21d", "volatility_21d", "rsi_14", "macd",
               "macd_signal", "macd_hist", "bb_percent_b", "volume_zscore_20",
               "news_sent_mean_24h", "news_sent_mean_7d", "news_count_24h",
               "news_count_7d", "news_count_total"} \subseteq DOMAIN f

\* 34 bars: the MACD values are still None while rsi_14 and return_21d are numbers
C10_Witness ==
    /\ pout # << >>
    /\ pin[1].kind = "features"
    /\ Len(pin[1].items) = 34
    /\ pout[1].macd = None
    /\ pout[1].rsi_14 # None
    /\ pout[1].return_21d # None

-----------------------------------------------------------------------------
(* Properties of the news aggregates (specifications SpecNews and SpecF).  *)

\* C11: for each window W of 24 h and 7 d, news_count_W is the number of items with
\* published_at >= now - W, and news_sent_mean_W is the mean of the scores of
\* exactly those items (rounded to 6 decimals like every float of the vector).
C11_WindowAggregates ==
    (pout # << >> /\ pin[1].kind = "news")
    => LET news == pin[1].news
           In(W)    == {i \in DOMAIN news : news[i].published_at >= EpochBase - W}
           Total(W) == RSum([i \in DOMAIN news |->
                               IF i \in In(W) THEN news[i].score ELSE RZero])
           Avg(W)   == IF In(W) = {} THEN None
                       ELSE Round6(RDiv(Total(W), F(Cardinality(In(W)))))
       IN  /\ pout[1].news_count_24h = Cardinality(In(24 * 3600))
           /\ pout[1].news_count_7d = Cardinality(In(7 * 24 * 3600))
           /\ pout[1].news_sent_mean_24h = Avg(24 * 3600)
           /\ pout[1].news_sent_mean_7d = Avg(7 * 24 * 3600)
           /\ pout[1].news_count_total = Len(news)

\* three items: one exactly on the 24 h cutoff, one a second older, one on the 7 d cutoff
C11_Witness ==
    /\ pout # << >>
    /\ pin[1].kind = "news"
    /\ Len(pin[1].news) = 3
    /\ pin[1].news[1].published_at = EpochBase - 24 * 3600 - 1
    /\ pin[1].news[2].published_at = EpochBase - 24 * 3600
    /\ pin[1].news[3].published_at = EpochBase - 7 * 24 * 3600
    /\ pout[1].news_count_24h = 1
    /\ pout[1].news_count_7d = 3
    /\ pout[1].news_sent_mean_24h = Rat(-1, 4)

\* C12: once the prices are there, get_features fails only if search_news raised,
\* never when max_news is 0 or when search_news returned an empty list; and a
\* window that holds no item has the mean None and the count 0.
C12_EmptyWindowIsNull ==
    \A t \in Threads :
        (L(t).pc = "gf_done" /\ L(t).called # {} /\ L(t).ret.kind = "return")
        => LET l     == L(t)
               f     == l.fret.val.features
               In(W) == {i \in DOMAIN l.news : l.news[i].published_at >= l.now_l - W}
           IN  /\ l.fret.kind = "raise"
                    => /\ l.max_news > 0
                       /\ "search_news" \in l.called
                       /\ l.fret.err \in {"RuntimeError: Missing GNEWS_API_KEY", "gnews HTTPError"}
               /\ l.fret.kind = "return"
                    => /\ In(24 * 3600) = {}
                            => (f.news_sent_mean_24h = None /\ f.news_count_24h = 0)
                       /\ In(7 * 24 * 3600) = {}
                            => (f.news_sent_mean_7d = None /\ f.news_count_7d = 0)

\* search_news returned two items, none of the last 24 h
C12_Witness ==
    \E t \in Threads :
        /\ L(t).pc = "gf_done"
        /\ L(t).fret.kind = "return"
        /\ "search_news" \in L(t).called
        /\ Len(L(t).news) = 2
        /\ L(t).fret.val.features.news_count_total = 2
        /\ L(t).fret.val.features.news_count_24h = 0
        /\ L(t).fret.val.features.news_sent_mean_24h = None
        /\ L(t).fret.val.features.news_sent_mean_7d # None

-----------------------------------------------------------------------------
\* C13: under any interleaving of concurrent predict_direction calls the
\* classifier is loaded successfully at most once: at most one caller is
\* inside the locked section, and every wrapper a caller holds, and every
\* model_loaded_at it reports, is the one stored in _model.
InLockedSection(t) == P(t).pc \in {"lm_check2", "lm_exists", "lm_load"}

C13_LoadedOnce ==
    /\ vm.loads <= 1
    /\ Cardinality({t \in Threads : InLockedSection(t)}) <= 1
    /\ \A t \in Threads :
         /\ P(t).wrap # NoModel => P(t).wrap = vm._model
         /\ (P(t).pc = "pd_done" /\ P(t).result.kind = "ok")
              => P(t).result.model_loaded_at = vm._model[1].loaded_at

\* one caller loaded the model, another found it loaded once it got the lock,
\* and both have answered
C13_Witness ==
    \E t1, t2 \in Threads :
        /\ P(t1).pc = "pd_done" /\ P(t1).result.kind = "ok" /\ P(t1).via = "load"
        /\ P(t2).pc = "pd_done" /\ P(t2).result.kind = "ok" /\ P(t2).via = "locked"
        /\ P(t1).result.model_loaded_at = P(t2).result.model_loaded_at
        /\ vm.loads = 1

-----------------------------------------------------------------------------
\* C14: when the model file is absent the prediction call does not fail: it
\* answers prob_up = 0.5, prob_down = 0.5 and label "HOLD" for every symbol.
C14_NeutralWithoutModel ==
    \A t \in Threads :
        (P(t).pc = "pd_done" /\ ~Env.file)
            => /\ P(t).result.kind = "ok"
               /\ P(t).result.prob_up = Half
               /\ P(t).result.prob_down = Half
               /\ P(t).result.label = "HOLD"

-----------------------------------------------------------------------------
\* C15: every result of predict_direction with a loaded model has a label in
\* {"UP", "DOWN"} and prob_up + prob_down = 1, on the predict_proba path and
\* on the predict-only path, for every classifier output.
C15_SumsToOne ==
    \A t \in Threads :
        (P(t).pc = "pd_done" /\ P(t).result.kind = "ok")
            => /\ P(t).result.label \in {"UP", "DOWN"}
               /\ RAdd(P(t).result.prob_up, P(t).result.prob_down) = One

-----------------------------------------------------------------------------
\* C16: the feature schema follows the classifier's declared input width: the
\* technical feature set when the width is the technical schema's length,
\* otherwise the four legacy fields; the row holds the values of the chosen
\* schema in the order reported.
C16_SchemaByWidth ==
    \A t \in Threads :
        (P(t).pc = "pd_done" /\ P(t).result.kind = "ok")
            => LET n     == P(t).wrap[1].model.n_features_in_
                   order == P(t).result.feature_order
               IN  /\ IF n = Len(TechnicalSchema)
                      THEN order = TechnicalSchema
                      ELSE Len(order) = Len(LegacyOrder) /\ Range(order) = Range(LegacyOrder)
                   /\ \A i \in DOMAIN order :
                        /\ order[i] \in DOMAIN P(t).features
                        /\ P(t).result.features[i] = P(t).features[order[i]]

-----------------------------------------------------------------------------
\* C17: predicting with temperature 1.0 reports the classifier's prob_up
\* unchanged (up to the rounding of the result), and with a larger
\* temperature the reported prob_up lies nearer to 0.5 than the classifier's.
DistFromHalf(x) == LET d == RSub(x, Half) IN <<Abs(d[1]), d[2]>>

C17_TemperatureCalibrates ==
    \A t \in Threads :
        (P(t).pc = "pd_done" /\ P(t).result.kind = "ok")
            => LET raw == P(t).prob_up.q
               IN  /\ P(t).req.temperature = 1 => P(t).result.prob_up = Round4(P(t).prob_up)
                   /\ (P(t).req.temperature > 1 /\ RLt(RZero, raw) /\ RLt(raw, One) /\ raw # Half)
                        => RLt(DistFromHalf(P(t).result.prob_up), DistFromHalf(raw))

-----------------------------------------------------------------------------
\* C26 as claimed: the label of every result agrees with the probability
\* returned: it is "UP" exactly when the returned, rounded prob_up is >= 0.5.
C26_LabelAgreesWithReturned ==
    \A t \in Threads :
        (P(t).pc = "pd_done" /\ P(t).result.kind = "ok")
            => (P(t).result.label = "UP" <=> ~RLt(P(t).result.prob_up, Half))

\* C26: the label of every result is "UP" exactly when the probability the
\* classifier gave, before rounding, is >= 0.5; so the returned prob_up is
\* >= 0.5 under "UP" and <= 0.5 under "DOWN".
C26_LabelAgreesWithComputed ==
    \A t \in Threads :
        (P(t).pc = "pd_done" /\ P(t).result.kind = "ok")
            => /\ P(t).result.label \in {"UP", "DOWN"}
               /\ P(t).result.label = "UP" <=> GeHalf(P(t).prob_up)
               /\ P(t).result.label = "UP" => ~RLt(P(t).result.prob_up, Half)
               /\ P(t).result.label = "DOWN" => ~RLt(Half, P(t).result.prob_up)

\* a probability just below 0.5 that rounds to 0.5 was labelled
C26_Witness ==
    \E t \in Threads :
        /\ P(t).pc = "pd_done"
        /\ P(t).result.kind = "ok"
        /\ RLt(P(t).prob_up.q, Half)
        /\ P(t).result.prob_up = Half
        /\ P(t).result.label = "DOWN"

-----------------------------------------------------------------------------
\* the step in which the load of thread t raises
LoadFails(t) ==
    /\ P(t).pc \in {"lm_exists", "lm_load"}
    /\ pth'[t].pc = "pd_done"
    /\ pth'[t].result.kind = "raise"

\* C28: a failed load is never cached: the step in which _load_model raises
\* leaves _model unset and releases the lock, and a call that finds _model
\* unset goes on to take the lock, test the file and load; a _model that is
\* set is never reset or replaced.
C28_FailedLoadNotCached ==
    [][/\ vm._model # NoModel => vm'._model = vm._model
       /\ \A t \in Threads :
             /\ LoadFails(t)
                => /\ vm.lock = t
                   /\ vm'.lock = NoLock
                   /\ vm'._model = NoModel
                   /\ pth'[t].result.err \in vm'.failed
             /\ (vm._model = NoModel /\ pth'[t] # pth[t])
                => /\ P(t).pc = "lm_check1" => pth'[t].pc = "lm_acquire"
                   /\ P(t).pc = "lm_check2" => pth'[t].pc = "lm_exists"
                   /\ (P(t).pc = "lm_exists" /\ Env.file) => pth'[t].pc = "lm_load"]_vars

\* after loads failed for the missing file and in both loaders, a later call
\* loaded the classifier
C28_Witness ==
    /\ vm.failed = {"FileNotFoundError", "RuntimeError"}
    /\ vm._model # NoModel
    /\ vm.loads = 1
    /\ vm.lock = NoLock
    /\ \E t \in Threads : P(t).pc = "pd_done" /\ P(t).result.kind = "ok" /\ P(t).via = "load"

-----------------------------------------------------------------------------
(* Properties of search_news (specification SpecSearch).                   *)

Searched == pout # << >> /\ pout[1].kind = "search"

\* the call found an entry for its key whose TTL has not elapsed
FoundWithinTtl == pout[1].pre # << >> /\ pout[1].t - pout[1].pre[1].ts <= _CACHE_TTL_SEARCH

\* C29: a call of search_news that finds the empty result of an earlier search
\* cached for its key issues a new request even within the TTL; a call that
\* finds a non-empty result within the TTL returns it without a request and
\* leaves the cache alone; once the TTL has elapsed the call issues a request.
C29_EmptyResultNotServed ==
    Searched
    => LET c == pout[1] IN
       /\ (FoundWithinTtl /\ c.pre[1].val = << >>) => c.r.requested
       /\ (FoundWithinTtl /\ c.pre[1].val # << >>)
             => /\ ~c.r.requested
                /\ ~c.r.raised
                /\ c.r.items = c.pre[1].val
                /\ scache = c.before
       /\ ~FoundWithinTtl => c.r.requested

\* within the TTL of an empty result a search for the same key issued a request
\* and got articles
C29_Witness ==
    /\ Searched
    /\ FoundWithinTtl
    /\ pout[1].t > pout[1].pre[1].ts
    /\ pout[1].pre[1].val = << >>
    /\ pout[1].r.requested
    /\ pout[1].r.items # << >>

-----------------------------------------------------------------------------
(* Properties across the two cache layers (specification SpecS).           *)

FeaturesReturned(t) ==
    L(t).op = "get_features" /\ L(t).pc = "gf_done" /\ L(t).fret.kind = "return"

\* C27 as claimed: a feature vector returned at time t was computed from a price
\* series an adapter fetched no earlier than t - (FEATURES_CACHE_TTL + CACHE_TTL).
C27_StalenessBound ==
    \A t \in Threads :
        FeaturesReturned(t)
        => L(t).tret - L(t).fetched <= FEATURES_CACHE_TTL + CACHE_TTL

\* C27: a feature vector returned at time t was computed from a price series an
\* adapter fetched no earlier than t - (FEATURES_CACHE_TTL + CACHE_TTL) - d, d
\* being the time that passed in the calls that filled the caches: between the
\* adapter's fetch and the store in the price cache, and between get_prices
\* handing the series over and the store in the features cache.
C27_StalenessBoundWithLatency ==
    \A t \in Threads :
        FeaturesReturned(t)
        => /\ L(t).lat >= 0
           /\ L(t).tret - L(t).fetched <= FEATURES_CACHE_TTL + CACHE_TTL + L(t).lat

\* a vector served from the features cache at the end of its TTL that was
\* computed from a series served from the price cache at the end of its TTL
C27_Witness ==
    \E t \in Threads :
        /\ FeaturesReturned(t)
        /\ L(t).fpre # << >>
        /\ L(t).fret.val = L(t).fpre[1].val
        /\ L(t).tret - L(t).fpre[1].ts = FEATURES_CACHE_TTL
        /\ L(t).tret - L(t).fetched = FEATURES_CACHE_TTL + CACHE_TTL + L(t).lat

-----------------------------------------------------------------------------
(* Properties of the indicator functions (specification SpecMath).         *)

Identical(values) == \A i \in DOMAIN values : values[i] = values[1]

NullBelowWindow(r, values, n) ==
    /\ r.sma = None <=> Len(values) < n
    /\ r.stddev = None <=> Len(values) < n
    /\ r.ema = None <=> Len(values) < n

-----------------------------------------------------------------------------
StrictlyIncreasing(values) ==
    \A i \in DOMAIN values : i > 1 => RLt(values[i - 1], values[i])

\* C19: _rsi(values, 14) returns None exactly when the series has 14 or fewer
\* values, and 100 on every strictly increasing series of at least 15 values.
C19_RsiOfRisingSeries ==
    (pout # << >> /\ pin[1].kind = "rsi")
    => /\ pout[1].rsi = None <=> Len(pin[1].values) <= RsiPeriod
       /\ (StrictlyIncreasing(pin[1].values) /\ Len(pin[1].values) >= RsiPeriod + 1)
            => pout[1].rsi = F(100)

\* a rising series of uneven steps, longer than the seed window, scores 100
C19_Witness ==
    /\ pout # << >>
    /\ pin[1].kind = "rsi"
    /\ Len(pin[1].values) > RsiPeriod + 1
    /\ StrictlyIncreasing(pin[1].values)
    /\ RSub(pin[1].values[3], pin[1].values[2]) # RSub(pin[1].values[2], pin[1].values[1])
    /\ pout[1].rsi = F(100)

-----------------------------------------------------------------------------
\* C20: with fast <= slow, _macd returns (None, None, None) exactly when the
\* series has fewer than slow + signal values, and otherwise macd, signal and
\* histogram are all numbers with histogram = macd - signal; a result with
\* macd a number and signal and histogram None is never produced.
C20_MacdAllOrNothing ==
    (pout # << >> /\ pin[1].kind = "macd" /\ pin[1].fast <= pin[1].slow)
    => LET m == pout[1].macd
       IN  /\ IF Len(pin[1].values) < pin[1].slow + pin[1].signal
              THEN m = <<None, None, None>>
              ELSE /\ m[1] # None /\ m[2] # None /\ m[3] # None
                   /\ m[3] = RSub(m[1], m[2])
           /\ ~(m[1] # None /\ m[2] = None /\ m[3] = None)

\* exactly slow + signal values with fast < slow: three numbers, a histogram that is not 0
C20_Witness ==
    /\ pout # << >>
    /\ pin[1].kind = "macd"
    /\ pin[1].fast < pin[1].slow
    /\ pin[1].signal > 1
    /\ Len(pin[1].values) = pin[1].slow + pin[1].signal
    /\ pout[1].macd[1] # None
    /\ pout[1].macd[2] # None
    /\ pout[1].macd[3] # None
    /\ pout[1].macd[3] # RZero

-----------------------------------------------------------------------------
\* the series has a full window and its last close is the mean of the window
LastIsWindowMean(values) ==
    /\ Len(values) >= BbWindow
    /\ values[Len(values)] = RDiv(RSum(LastVals(values, BbWindow)), F(BbWindow))

\* C21 as stated: for every series of at least 20 closes whose last close is
\* the mean of its last 20 closes, bb_percent_b is 0.5.
C21_MidBandIsHalf ==
    (pout # << >> /\ pin[1].kind = "bb" /\ LastIsWindowMean(pin[1].values))
    => pout[1].bb_percent_b = Half

\* C21 amended: on such a series bb_percent_b is 0.5 when the last 20 closes
\* are not all equal, and None when they are (the band has no width).
C21_MidBandIsHalfUnlessFlat ==
    (pout # << >> /\ pin[1].kind = "bb" /\ LastIsWindowMean(pin[1].values))
    => IF Identical(LastVals(pin[1].values, BbWindow))
       THEN pout[1].bb_percent_b = None
       ELSE pout[1].bb_percent_b = Half

\* more than 20 closes, the last 20 uneven around their mean, which is the last close
C21_Witness ==
    /\ pout # << >>
    /\ pin[1].kind = "bb"
    /\ Len(pin[1].values) > BbWindow
    /\ LastIsWindowMean(pin[1].values)
    /\ ~Identical(LastVals(pin[1].values, BbWindow))
    /\ pout[1].bb_percent_b = Half

-----------------------------------------------------------------------------
\* C22: in each TTL cache a read at time now serves the stored entry if and
\* only if now - insertedAt <= ttl; the read removes no entry of another key.
C22_ValidIffWithinTtl ==
    (pout # << >> /\ pin[1].kind = "cache")
    => /\ pout[1].served <=> pin[1].tnow - pin[1].ts <= TtlOf(pin[1].cache)
       /\ "other" \in DOMAIN pout[1].store
       /\ pout[1].store["other"] = pin[1].store["other"]

-----------------------------------------------------------------------------
\* C23: under any interleaving of get_prices calls for one key, an entry that a
\* call stored stays in the cache while it is fresh, unless a call overwrites
\* it: no step removes an entry whose TTL has not elapsed.
C23_FreshEntryStays ==
    [][\A k \in DOMAIN cache : ~Expired(cache[k], Time) => k \in DOMAIN cache']_vars

=============================================================================
